---- MODULE Spec2Model ----
(***************************************************************************)
(* Instant-Coffee: marshalling of values between Rust and a hosted JVM,    *)
(* and the native-callable entry points the jmodule macro generates.       *)
(*                                                                         *)
(* The state machines of this module:                                      *)
(*   SpecCache - the memoized array type name / signature                  *)
(*               (instant-coffee/src/lib.rs, impl JavaType for Box<[T]>);  *)
(*   Spec      - one call through a generated export_fn: binding           *)
(*               generation, argument conversion, the native body, return  *)
(*               conversion and the match on the three-way outcome         *)
(*               (instant-coffee-proc-macro/src/lib.rs, jmodule);          *)
(*   SpecScalar - one scalar value converted to its JNI lane and back, and *)
(*               the char <-> JavaChar conversions                         *)
(*               (instant-coffee/src/lib.rs, instant-coffee/src/interop.rs)*)
(*   SpecSignature - the JVM signature of one supported type               *)
(*               (JVM_PARAM_SIGNATURE of the impls and of derived types);  *)
(*   SpecExport - the symbol name jmodule gives the export_fn of one       *)
(*               function (instant-coffee-proc-macro/src/lib.rs, jmodule); *)
(*   SpecEmit  - the Java source write_class_file writes for one           *)
(*               JClassDecl, once and once more                            *)
(*               (instant-coffee/src/codegen.rs);                          *)
(*   SpecJValue - from_jvalue of one type on one JValueOwned               *)
(*               (instant-coffee/src/lib.rs, the impls of JavaType);       *)
(*   SpecOnce  - threads asking the memoized array name and signature      *)
(*               (instant-coffee/src/lib.rs, impl JavaType for Box<[T]>);  *)
(*   SpecDerive - #[derive(JavaType)] on one enum: the encoding chosen,    *)
(*               and a payload-less variant encoded and decoded again      *)
(*               (instant-coffee-proc-macro/src/lib.rs, impl_enum_gen);    *)
(*   SpecVerify - one name under the checks made before it enters a        *)
(*               descriptor (instant-coffee-proc-macro/src/lib.rs,         *)
(*               verify_java_identifier and its callers).                  *)
(***************************************************************************)
EXTENDS Integers, Sequences, FiniteSets, TLC

VARIABLES
    NAME,        \* static NAME: OnceLock<&'static str>       (lib.rs:762)
    SIGNATURE,   \* static SIGNATURE: OnceLock<&'static str>  (lib.rs:768)
    queries,     \* history: the array-type queries answered so far
    method,      \* the `extern "jni"` function the entry point was generated for
    jargs,       \* the foreign values the JVM passes (receiver first)
    pc,          \* position inside jmodule / the generated export_fn
    idx,         \* number of inputs converted so far
    natives,     \* the converted native inputs, in order
    res,         \* `res`: Result<JniType, Option<Exception>> of the try block
    out,         \* `out`: the native value the function body returned
    calls,       \* history: every JNIEnv call made during this entry
    envErr,      \* history: the jni::errors::Error a JNIEnv call of a conversion failed with
    throws,      \* history: the throw_new calls, each with the pc it was made at
    bulk,        \* history: raw reinterpretations (slice::from_raw_parts) performed
    ret,         \* what the export_fn returned to the JVM
    trip,        \* one scalar conversion: the value, its JNI lane value, the value back
    asked,       \* one JVM_PARAM_SIGNATURE() query: the type and the answer
    export,      \* one `extern "jni"` function: package, class, name and its export_name
    emit,        \* one JClassDecl and the text write_class_file wrote for it
    given,       \* one JValueOwned handed to from_jvalue of one type, and the result
    once,        \* threads querying the memoized array name / signature: cells and positions
    derived,     \* one enum under #[derive(JavaType)]: the declaration and the paths chosen
    checked      \* one name under the front end's checks, and the verdict

cacheVars == <<NAME, SIGNATURE, queries>>
callVars == <<method, jargs, pc, idx, natives, res, out, calls, envErr, throws, bulk, ret>>
pureVars == <<trip, asked, export, emit, given, once, derived, checked>>
vars == <<NAME, SIGNATURE, queries, method, jargs, pc, idx, natives, res, out, calls,
          envErr, throws, bulk, ret, trip, asked, export, emit,
          given, once, derived, checked>>

\* No conversion of a single value is in progress.
IdlePure ==
    /\ trip = [step |-> "idle"]
    /\ asked = [step |-> "idle"]
    /\ export = [step |-> "idle"]
    /\ emit = [step |-> "idle"]
    /\ given = [step |-> "idle"]
    /\ once = [step |-> "idle"]
    /\ derived = [step |-> "idle"]
    /\ checked = [step |-> "idle"]

(***************************************************************************)
(* Bounds of the model.                                                    *)
(***************************************************************************)
MaxQueries == 3      \* array-type queries per behaviour of SpecCache
MaxArrayLen == 2     \* length of the arrays passed and returned
MaxFields == 2       \* fields of a class or of a union variant given to the emitter
MaxMethods == 2      \* methods of a class declaration given to the emitter
MaxVariants == 2     \* variants of an enum or tagged union given to the emitter
MaxThreads == 2      \* threads querying the memoized array name / signature

(***************************************************************************)
(* Type descriptors: the Rust types that implement JavaType / JavaReturn.  *)
(***************************************************************************)
Prim(n) == [k |-> "prim", name |-> n]
StringT == [k |-> "string"]
UnitT == [k |-> "unit"]
ArrayT(t) == [k |-> "array", elem |-> t]
StructT(pkg, n, fs) == [k |-> "struct", package |-> pkg, name |-> n, fields |-> fs]
UnionT(pkg, n, vs) == [k |-> "union", package |-> pkg, name |-> n, variants |-> vs]
EnumT(pkg, n, vs) == [k |-> "enum", package |-> pkg, name |-> n, variants |-> vs]
FieldD(n, t) == [name |-> n, ty |-> t]
VariantD(n, fs) ==
    [name |-> n, fields |-> fs, kind |-> IF fs = <<>> THEN "Unit" ELSE "Named"]
\* A tuple variant `V(T0, T1, ..)`: quote_fields names its fields field_0, field_1, ..
TupleVariantD(n, fs) == [name |-> n, fields |-> fs, kind |-> "Tuple"]

\* The JNI lane (JniType) of each primitive Rust type.
PrimLane(n) ==
    CASE n = "bool" -> "Bool"
      [] n \in {"i8", "u8"} -> "Byte"
      [] n \in {"i16", "u16"} -> "Short"
      [] n \in {"i32", "u32"} -> "Int"
      [] n \in {"i64", "u64"} -> "Long"
      [] n = "f32" -> "Float"
      [] n = "f64" -> "Double"
      [] n = "JavaChar" -> "Char"

PrimQualifiedName(n) ==
    CASE n = "bool" -> "boolean"
      [] n \in {"i8", "u8"} -> "byte"
      [] n \in {"i16", "u16"} -> "short"
      [] n \in {"i32", "u32"} -> "int"
      [] n \in {"i64", "u64"} -> "long"
      [] n = "f32" -> "float"
      [] n = "f64" -> "double"
      [] n = "JavaChar" -> "char"

PrimSignature(n) ==
    CASE n = "bool" -> "Z"
      [] n \in {"i8", "u8"} -> "B"
      [] n \in {"i16", "u16"} -> "S"
      [] n \in {"i32", "u32"} -> "I"
      [] n \in {"i64", "u64"} -> "J"
      [] n = "f32" -> "F"
      [] n = "f64" -> "D"
      [] n = "JavaChar" -> "C"

\* The characters of the package and identifier strings of the model.
Chars(str) ==
    CASE str = "geo" -> <<"g", "e", "o">>
      [] str = "com.app" -> <<"c", "o", "m", ".", "a", "p", "p">>
      [] str = "a.b.c" -> <<"a", ".", "b", ".", "c">>
      [] str = "my_pkg.io" -> <<"m", "y", "_", "p", "k", "g", ".", "i", "o">>
      [] str = "Point" -> <<"P", "o", "i", "n", "t">>
      [] str = "Shape" -> <<"S", "h", "a", "p", "e">>
      [] str = "Color" -> <<"C", "o", "l", "o", "r">>
      [] str = "Big_Int" -> <<"B", "i", "g", "_", "I", "n", "t">>
      [] str = "area" -> <<"a", "r", "e", "a">>
      [] str = "get_x" -> <<"g", "e", "t", "_", "x">>
      [] str = "_init_" -> <<"_", "i", "n", "i", "t", "_">>
      [] str = "len" -> <<"l", "e", "n">>

\* String::from_iter of characters
RECURSIVE Join(_)
Join(cs) == IF cs = <<>> THEN "" ELSE Head(cs) \o Join(Tail(cs))

\* str::replace(from, to) for a one-character pattern, on characters
RECURSIVE Replace(_, _, _)
Replace(cs, from, to) ==
    IF cs = <<>> THEN <<>>
    ELSE (IF Head(cs) = from THEN to ELSE <<Head(cs)>>) \o Replace(Tail(cs), from, to)

\* The same path with the dots of the package kept.
SlashPathDotted(pkg) == Join(Chars(pkg))

\* package_name_str.replace('.', "/")
SlashPath(pkg) == Join(Replace(Chars(pkg), ".", <<"/">>))

\* QUALIFIED_NAME() of every type that is not an array.
QUALIFIED_NAME(t) ==
    CASE t.k = "prim" -> PrimQualifiedName(t.name)
      [] t.k = "string" -> "java.lang.String"
      [] t.k = "unit" -> "void"
      [] t.k \in {"struct", "union", "enum"} -> t.package \o "." \o t.name

\* jvm_class_name_str of a derived struct or enum.
JvmClassName(t) == SlashPath(t.package) \o "/" \o t.name

\* JVM_PARAM_SIGNATURE() of every type that is not an array.
JVM_PARAM_SIGNATURE(t) ==
    CASE t.k = "prim" -> PrimSignature(t.name)
      [] t.k = "string" -> "Ljava/lang/String;"
      [] t.k = "unit" -> "V"
      [] t.k \in {"struct", "union", "enum"} -> "L" \o JvmClassName(t) \o ";"

(***************************************************************************)
(* The types declared in the modelled jmodule.                             *)
(***************************************************************************)
PointT == StructT("geo", "Point", <<FieldD("name", StringT), FieldD("x", Prim("i32"))>>)
MeshT == StructT("geo", "Mesh", <<FieldD("ids", ArrayT(Prim("i32"))),
                                  FieldD("tags", ArrayT(StringT))>>)
ColorT == EnumT("geo", "Color", <<"RED", "GREEN">>)
ShapeT == UnionT("geo", "Shape",
                 <<VariantD("Dot", <<>>),
                   VariantD("Label", <<FieldD("text", StringT)>>),
                   TupleVariantD("Side", <<FieldD("field_0", Prim("i32"))>>)>>)

(***************************************************************************)
(* SpecCache: impl<T: JavaType> JavaType for Box<[T]>, QUALIFIED_NAME and  *)
(* JVM_PARAM_SIGNATURE.  A static item declared inside a generic function  *)
(* is ONE item shared by every instantiation of the function (Rust         *)
(* reference, "Statics and generics"): NAME and SIGNATURE are single cells *)
(* whatever the element type T of the query.                               *)
(***************************************************************************)
Unset == [init |-> FALSE, val |-> ""]

\* OnceLock::get_or_init: the value stored by the first caller wins.
get_or_init(cell, computed) ==
    IF cell.init THEN cell ELSE [init |-> TRUE, val |-> computed]

\* format!("{}[]", T::QUALIFIED_NAME())
ArrayNameInit(t) == QUALIFIED_NAME(t) \o "[]"

\* format!("[{}", T::JVM_PARAM_SIGNATURE())
ArraySignatureInit(t) == "[" \o JVM_PARAM_SIGNATURE(t)

\* The element types T the array type Box<[T]> is queried for.
ElemTypes == {Prim("bool"), Prim("u8"), Prim("i32"), Prim("JavaChar"), StringT, PointT}

\* <Box<[T]> as JavaType>::QUALIFIED_NAME()
ArrayQualifiedName(t) ==
    /\ Len(queries) < MaxQueries
    /\ NAME' = get_or_init(NAME, ArrayNameInit(t))
    /\ queries' = Append(queries, [elem |-> t, what |-> "name", result |-> NAME'.val])
    /\ UNCHANGED SIGNATURE

\* <Box<[T]> as JavaType>::JVM_PARAM_SIGNATURE()
ArrayJvmParamSignature(t) ==
    /\ Len(queries) < MaxQueries
    /\ SIGNATURE' = get_or_init(SIGNATURE, ArraySignatureInit(t))
    /\ queries' = Append(queries, [elem |-> t, what |-> "signature", result |-> SIGNATURE'.val])
    /\ UNCHANGED NAME

IdleCall ==
    /\ method = [name |-> "none"]
    /\ jargs = <<>>
    /\ pc = "idle"
    /\ idx = 0
    /\ natives = <<>>
    /\ res = [tag |-> "None"]
    /\ out = [n |-> "none"]
    /\ calls = <<>>
    /\ envErr = "none"
    /\ throws = <<>>
    /\ bulk = <<>>
    /\ ret = [kind |-> "none"]

InitCache ==
    /\ NAME = Unset
    /\ SIGNATURE = Unset
    /\ queries = <<>>
    /\ IdleCall
    /\ IdlePure

NextCache ==
    \/ \E t \in ElemTypes : ArrayQualifiedName(t) /\ UNCHANGED <<callVars, pureVars>>
    \/ \E t \in ElemTypes : ArrayJvmParamSignature(t) /\ UNCHANGED <<callVars, pureVars>>

SpecCache == InitCache /\ [][NextCache]_vars

(***************************************************************************)
(* C1: for every element type T the signature reported for "array of T"    *)
(* is "[" followed by signature(T) and its name is name(T) followed by     *)
(* "[]", whatever was queried before.                                      *)
(***************************************************************************)
C1_ArrayTypeOfEveryQuery ==
    \A i \in DOMAIN queries :
        queries[i].result = IF queries[i].what = "name"
                            THEN QUALIFIED_NAME(queries[i].elem) \o "[]"
                            ELSE "[" \o JVM_PARAM_SIGNATURE(queries[i].elem)

(***************************************************************************)
(* Values.  A foreign value is what crosses the JNI boundary (a JniType or *)
(* a JValueOwned); a native value is the Rust value it converts to.        *)
(***************************************************************************)
JPrim(kind, v) == [kind |-> kind, v |-> v]
JNull == [kind |-> "Object", null |-> TRUE]
JStringObj(s) == [kind |-> "Object", null |-> FALSE, class |-> "java.lang.String", str |-> s]
JArrayObj(cls, es) == [kind |-> "Object", null |-> FALSE, class |-> cls, elems |-> es]
JObj(cls, fs) == [kind |-> "Object", null |-> FALSE, class |-> cls, fields |-> fs]
JEnumObj(cls, k) == [kind |-> "Object", null |-> FALSE, class |-> cls, ordinal |-> k]

NBool(b) == [n |-> "bool", v |-> b]
NInt(v) == [n |-> "int", v |-> v]
NChar(u) == [n |-> "JavaChar", v |-> u]
NFloat(f) == [n |-> "float", v |-> f]
NStr(s) == [n |-> "String", v |-> s]
NSeq(es) == [n |-> "slice", v |-> es]
NStruct(name, fs) == [n |-> "struct", name |-> name, v |-> fs]
NVariant(name, variant, fs) == [n |-> "enum", name |-> name, variant |-> variant, v |-> fs]
NUnit == [n |-> "unit"]

\* Result<_, Option<Exception>>: Ok(v), Err(None), Err(Some(Exception {class, msg})).
None == [some |-> FALSE]
Some(class, msg) == [some |-> TRUE, class |-> class, msg |-> msg]
Ok(v) == [tag |-> "Ok", val |-> v]
Err(e) == [tag |-> "Err", exc |-> e]
IsOk(r) == r.tag = "Ok"
IsPending(r) == r.tag = "Err" /\ ~r.exc.some
IsSynthesized(r) == r.tag = "Err" /\ r.exc.some

\* The jni::errors::Error values a JNIEnv call of the model fails with.
JniErrors == {"JavaException", "NullPtr"}

\* jni_util::map_jni_error
map_jni_error(error) ==
    IF error = "JavaException"
    THEN None
    ELSE Some("java/lang/RuntimeException", "JNI error: " \o error)

(***************************************************************************)
(* JNIEnv calls.  A conversion threads a context c: the calls it has made, *)
(* which of them (fail.at, 0 for none) the foreign runtime fails and with  *)
(* which error, and the error met.  Every fallible call of the source is   *)
(* followed by `?`, so one conversion meets at most one failing call.      *)
(***************************************************************************)
NoFail == [at |-> 0, err |-> "JavaException"]
NewCtx(fail) ==
    [calls |-> <<>>, fail |-> fail, err |-> "none", bulk |-> <<>>, cell |-> SIGNATURE]

\* The calls the jni crate refuses on a null reference before reaching the JVM.
NullChecked == {"get_field", "call_method", "get_object_class", "get_array_length",
                "get_object_array_element", "get_array_elements", "get_string"}

\* A call that is passed a JVM signature (get_field, new_object); the record of a
\* call keeps what was asked and whether the runtime carried it out.
EnvCallSig(c, op, on, arg, sig) ==
    LET n == Len(c.calls) + 1
        refused == op \in NullChecked /\ on.null
        failing == refused \/ c.fail.at = n
        error == IF refused THEN "NullPtr" ELSE c.fail.err
    IN  [ok |-> ~failing,
         error |-> error,
         c |-> [c EXCEPT !.calls = Append(@, [op |-> op, on |-> on, arg |-> arg,
                                               sig |-> sig, ok |-> ~failing]),
                         !.err = IF failing THEN error ELSE @]]

EnvCall(c, op, on, arg) == EnvCallSig(c, op, on, arg, "")

\* <T as JavaType>::JVM_PARAM_SIGNATURE() as a conversion calls it: an array type
\* answers from the one SIGNATURE cell, every other type with its literal.
QuerySignature(t, c) ==
    IF t.k = "array"
    THEN LET cell == get_or_init(c.cell, ArraySignatureInit(t.elem))
         IN  [sig |-> cell.val, c |-> [c EXCEPT !.cell = cell]]
    ELSE [sig |-> JVM_PARAM_SIGNATURE(t), c |-> c]

Done(r, c) == [r |-> r, c |-> c]

\* JNI IsInstanceOf: a null reference is an instance of every class.
IsInstanceOf(obj, cls) == obj.null \/ obj.class = cls

\* `jni_value as Self` / `self as JniType`: the integer casts between a JNI lane and
\* the Rust type (same width: two's-complement reinterpretation).
AsUnsigned(v, m) == v % m
AsSigned(v, m) == LET u == v % m IN IF 2 * u >= m THEN u - m ELSE u
\* A 32- or 64-bit unsigned integer and its lane value are wider than one integer of
\* the model: sign and magnitude, the magnitude in base-65536 digits, most
\* significant first (two digits for 32 bits, four for 64).
Wide(neg, mag) == [neg |-> neg, mag |-> mag]
Complement(d) == [i \in DOMAIN d |-> 65535 - d[i]]
RECURSIVE AddOne(_, _)
AddOne(d, i) ==
    IF i = 0 THEN d
    ELSE IF d[i] = 65535 THEN AddOne([d EXCEPT ![i] = 0], i - 1)
    ELSE [d EXCEPT ![i] = d[i] + 1]
Negate(d) == AddOne(Complement(d), Len(d))
\* The two's-complement bit pattern of a value, and the value a pattern has when
\* read as a signed or as an unsigned integer of the same width.
BitsOf(x) == IF x.neg THEN Negate(x.mag) ELSE x.mag
WideAsSigned(x) ==
    LET b == BitsOf(x) IN IF b[1] >= 32768 THEN Wide(TRUE, Negate(b)) ELSE Wide(FALSE, b)
WideAsUnsigned(x) == Wide(FALSE, BitsOf(x))

\* The same casts keeping the numeric value of the lane for every type.
CastToNativeKeepingValue(n, v) == v

CastToNative(n, v) ==
    CASE n = "u8" -> AsUnsigned(v, 256)
      [] n = "i8" -> AsSigned(v, 256)
      [] n = "u16" -> AsUnsigned(v, 65536)
      [] n = "i16" -> AsSigned(v, 65536)
      [] n \in {"i32", "i64"} -> v
      [] n \in {"u32", "u64"} -> WideAsUnsigned(v)
CastToLane(n, v) ==
    CASE n \in {"u8", "i8"} -> AsSigned(v, 256)
      [] n \in {"u16", "i16"} -> AsSigned(v, 65536)
      [] n \in {"i32", "i64"} -> v
      [] n \in {"u32", "u64"} -> WideAsSigned(v)

\* JValueOwned::type_name()
type_name(jv) ==
    CASE jv.kind = "Object" -> "object"
      [] jv.kind = "Bool" -> "bool"
      [] jv.kind = "Byte" -> "byte"
      [] jv.kind = "Short" -> "short"
      [] jv.kind = "Int" -> "int"
      [] jv.kind = "Long" -> "long"
      [] jv.kind = "Float" -> "float"
      [] jv.kind = "Double" -> "double"
      [] jv.kind = "Char" -> "char"
      [] jv.kind = "Void" -> "void"

\* The JValueOwned variant from_jvalue accepts for a type.
LaneOf(t) == IF t.k = "prim" THEN PrimLane(t.name) ELSE "Object"

\* The same match with one arm for every JValueOwned variant that holds an integer.
from_jvalue_any_integer(t, jv) ==
    IF jv.kind = LaneOf(t) \/ {jv.kind, LaneOf(t)} \subseteq {"Bool", "Byte", "Short", "Int", "Long"}
    THEN Ok(jv)
    ELSE Err(Some("java/lang/ClassCastException",
                  type_name(jv) \o " cannot be cast to " \o QUALIFIED_NAME(t)))

\* JavaType::from_jvalue
from_jvalue(t, jv) ==
    IF jv.kind = LaneOf(t)
    THEN Ok(jv)
    ELSE Err(Some("java/lang/ClassCastException",
                  type_name(jv) \o " cannot be cast to " \o QUALIFIED_NAME(t)))

\* format!("{}", ordinal) for the ordinals of the model.
RECURSIVE FormatNat(_)
FormatNat(k) ==
    LET digit == CASE k % 10 = 0 -> "0" [] k % 10 = 1 -> "1" [] k % 10 = 2 -> "2"
                   [] k % 10 = 3 -> "3" [] k % 10 = 4 -> "4" [] k % 10 = 5 -> "5"
                   [] k % 10 = 6 -> "6" [] k % 10 = 7 -> "7" [] k % 10 = 8 -> "8"
                   [] k % 10 = 9 -> "9"
    IN  IF k < 10 THEN digit ELSE FormatNat(k \div 10) \o digit
FormatInt(k) == IF k < 0 THEN "-" \o FormatNat(0 - k) ELSE FormatNat(k)

(***************************************************************************)
(* foreignToNative: JavaType::from_jni of every kind of type.              *)
(***************************************************************************)
RECURSIVE from_jni(_, _, _)
RECURSIVE FieldsFromJni(_, _, _, _, _)
RECURSIVE ElementsFromJni(_, _, _, _, _)
RECURSIVE VariantsFromJni(_, _, _, _)

\* from_jni of bool, the integers, the floats and JavaChar: no JNIEnv call.
PrimFromJni(t, jv) ==
    CASE t.name = "bool" -> NBool(jv.v # 0)
      [] t.name = "JavaChar" -> NChar(jv.v)
      [] t.name \in {"f32", "f64"} -> NFloat(jv.v)
      [] OTHER -> NInt(CastToNative(t.name, jv.v))

\* The same conversion without the is_null test.
StringFromJniUnchecked(jv, c) ==
    LET e == EnvCall(c, "get_string", jv, "")
    IN  IF e.ok THEN Done(Ok(NStr(IF jv.null THEN "" ELSE jv.str)), e.c)
        ELSE Done(Err(map_jni_error(e.error)), e.c)

\* <String as JavaType>::from_jni
StringFromJni(jv, c) ==
    IF jv.null
    THEN Done(Err(Some("java/lang/NullPointerException",
                       "expected " \o QUALIFIED_NAME(StringT))), c)
    ELSE LET e == EnvCall(c, "get_string", jv, "")
         IN  IF e.ok THEN Done(Ok(NStr(jv.str)), e.c)
             ELSE Done(Err(map_jni_error(e.error)), e.c)

\* The field initialisers of a derived from_jni, in declared order:
\* from_jni(from_jvalue(env.get_field(obj, name, sig).map_err(map_jni_error)?)?)?
FieldsFromJni(fields, i, obj, c, acc) ==
    IF i > Len(fields) THEN Done(Ok(acc), c)
    ELSE LET f == fields[i]
             q == QuerySignature(f.ty, c)
             e == EnvCallSig(q.c, "get_field", obj, f.name, q.sig)
         IN  IF ~e.ok THEN Done(Err(map_jni_error(e.error)), e.c)
             ELSE LET jv == from_jvalue(f.ty, obj.fields[f.name])
                  IN  IF ~IsOk(jv) THEN Done(jv, e.c)
                      ELSE LET r == from_jni(f.ty, jv.val, e.c)
                           IN  IF ~IsOk(r.r) THEN r
                               ELSE FieldsFromJni(fields, i + 1, obj, r.c,
                                                  Append(acc, r.r.val))

\* impl_struct_gen: from_jni of a struct (named, tuple or unit).
StructFromJni(t, obj, c) ==
    LET r == FieldsFromJni(t.fields, 1, obj, c, <<>>)
    IN  IF IsOk(r.r) THEN Done(Ok(NStruct(t.name, r.r.val)), r.c) ELSE r

\* JniArray<T> for JObjectArray, from_jni: the loop `for i in 0..array_size`.
ElementsFromJni(t, i, arr, c, buffer) ==
    IF i >= Len(arr.elems) THEN Done(Ok(NSeq(buffer)), c)
    ELSE LET e == EnvCall(c, "get_object_array_element", arr, i)
         IN  IF ~e.ok THEN Done(Err(map_jni_error(e.error)), e.c)
             ELSE LET r == from_jni(t, arr.elems[i + 1], e.c)
                  IN  IF ~IsOk(r.r) THEN r
                      ELSE ElementsFromJni(t, i + 1, arr, r.c, Append(buffer, r.r.val))

ObjectArrayFromJni(t, arr, c) ==
    LET e == EnvCall(c, "get_array_length", arr, "")
    IN  IF ~e.ok THEN Done(Err(map_jni_error(e.error)), e.c)
        ELSE ElementsFromJni(t, 0, arr, e.c, <<>>)

\* JniArray<prim> for J<Prim>Array, from_jni: get_array_elements, then one cast per element.
PrimArrayFromJni(t, arr, c) ==
    LET e == EnvCall(c, "get_array_elements", arr, "")
    IN  IF ~e.ok THEN Done(Err(map_jni_error(e.error)), e.c)
        ELSE Done(Ok(NSeq([i \in 1..Len(arr.elems) |->
                              PrimFromJni(t, JPrim(PrimLane(t.name), arr.elems[i]))])), e.c)

\* JValueOwned::l() and JValueOwned::i(): the value, or Error::WrongJValueType.
jvalue_l(jv) == IF jv.kind = "Object" THEN Ok(jv) ELSE Err(map_jni_error("WrongJValueType"))
jvalue_i(jv) == IF jv.kind = "Int" THEN Ok(jv.v) ELSE Err(map_jni_error("WrongJValueType"))

\* jni_util::obj_classname
obj_classname(obj, c) ==
    LET e1 == EnvCall(c, "get_object_class", obj, "")
    IN  IF ~e1.ok THEN Done(Err(map_jni_error(e1.error)), e1.c)
        ELSE LET e2 == EnvCall(e1.c, "call_method", obj, "getName")
             IN  IF ~e2.ok THEN Done(Err(map_jni_error(e2.error)), e2.c)
                 ELSE LET class_name == jvalue_l(JStringObj(obj.class))
                      IN  IF ~IsOk(class_name) THEN Done(class_name, e2.c)
                          ELSE LET e3 == EnvCall(e2.c, "get_string", class_name.val, "")
                               IN  IF ~e3.ok THEN Done(Err(map_jni_error(e3.error)), e3.c)
                                   ELSE Done(Ok(class_name.val.str), e3.c)

\* jvm_variant_name_str: format!("{}${}", jvm_class_name_str, variant_name)
JvmVariantName(t, v) == JvmClassName(t) \o "$" \o v.name

\* The class name the JVM reports (Class.getName) for an object of a variant class.
VariantClass(t, v) == t.package \o "." \o t.name \o "$" \o v.name

\* impl_enum_gen, tagged union: the fall-through after the variant tests.
UnionNoMatch(t, obj, c) ==
    LET n == obj_classname(obj, c)
        class_name == IF IsOk(n.r) THEN n.r.val ELSE "[UNKNOWN]"
    IN  Done(Err(Some("java/lang/RuntimeException",
                      "JNI: Could not match " \o t.name \o " as Rust Enum: " \o class_name)),
             n.c)

\* impl_enum_gen, tagged union: variant_from_jni_expressions, in declaration order.
VariantsFromJni(t, i, obj, c) ==
    IF i > Len(t.variants) THEN UnionNoMatch(t, obj, c)
    ELSE LET v == t.variants[i]
             e == EnvCall(c, "is_instance_of", obj, JvmVariantName(t, v))
         IN  IF ~e.ok THEN Done(Err(map_jni_error(e.error)), e.c)
             ELSE IF IsInstanceOf(obj, VariantClass(t, v))
                  THEN LET r == FieldsFromJni(v.fields, 1, obj, e.c, <<>>)
                       IN  IF IsOk(r.r)
                           THEN Done(Ok(NVariant(t.name, v.name, r.r.val)), r.c)
                           ELSE r
                  ELSE VariantsFromJni(t, i + 1, obj, e.c)

\* The same variant tests run from the last declared variant to the first.
RECURSIVE VariantsFromJniReversed(_, _, _, _)
VariantsFromJniReversed(t, i, obj, c) ==
    IF i < 1 THEN UnionNoMatch(t, obj, c)
    ELSE LET v == t.variants[i]
             e == EnvCall(c, "is_instance_of", obj, JvmVariantName(t, v))
         IN  IF ~e.ok THEN Done(Err(map_jni_error(e.error)), e.c)
             ELSE IF IsInstanceOf(obj, VariantClass(t, v))
                  THEN LET r == FieldsFromJni(v.fields, 1, obj, e.c, <<>>)
                       IN  IF IsOk(r.r)
                           THEN Done(Ok(NVariant(t.name, v.name, r.r.val)), r.c)
                           ELSE r
                  ELSE VariantsFromJniReversed(t, i - 1, obj, e.c)
UnionFromJniLastFirst(t, obj, c) == VariantsFromJniReversed(t, Len(t.variants), obj, c)

\* impl_enum_gen, tagged union: from_jni.
UnionFromJni(t, obj, c) == VariantsFromJni(t, 1, obj, c)

\* The same match with the ordinal literals counted from 1.
MatchOrdinalFromOne(t, ordinal) ==
    IF ordinal >= 1 /\ ordinal <= Len(t.variants)
    THEN Ok(NVariant(t.name, t.variants[ordinal], <<>>))
    ELSE Err(Some("java/lang/RuntimeException",
                  "enum ordinal out of range: " \o FormatInt(ordinal)))

\* impl_enum_gen, payload-less enum: from_jni (`match ordinal`).
MatchOrdinal(t, ordinal) ==
    IF ordinal >= 0 /\ ordinal < Len(t.variants)
    THEN Ok(NVariant(t.name, t.variants[ordinal + 1], <<>>))
    ELSE Err(Some("java/lang/RuntimeException",
                  "enum ordinal out of range: " \o FormatInt(ordinal)))

EnumFromJni(t, obj, c) ==
    LET e == EnvCall(c, "call_method", obj, "ordinal")
    IN  IF ~e.ok THEN Done(Err(map_jni_error(e.error)), e.c)
        ELSE LET ordinal == jvalue_i(JPrim("Int", obj.ordinal))
             IN  IF ~IsOk(ordinal) THEN Done(ordinal, e.c)
                 ELSE Done(MatchOrdinal(t, ordinal.val), e.c)

from_jni(t, jv, c) ==
    CASE t.k = "prim" -> Done(Ok(PrimFromJni(t, jv)), c)
      [] t.k = "string" -> StringFromJni(jv, c)
      [] t.k = "array" -> IF t.elem.k = "prim" THEN PrimArrayFromJni(t.elem, jv, c)
                          ELSE ObjectArrayFromJni(t.elem, jv, c)
      [] t.k = "struct" -> StructFromJni(t, jv, c)
      [] t.k = "union" -> UnionFromJni(t, jv, c)
      [] t.k = "enum" -> EnumFromJni(t, jv, c)

(***************************************************************************)
(* nativeToForeign: JavaType::into_jni / JavaReturn::into_jni.             *)
(***************************************************************************)
RECURSIVE into_jni(_, _, _)
RECURSIVE FieldsIntoJni(_, _, _, _, _)
RECURSIVE ElementsIntoJni(_, _, _, _, _, _)

JNew(cls, sig, args) ==
    [kind |-> "Object", null |-> FALSE, class |-> cls, ctor |-> sig, args |-> args]
JUnit == [kind |-> "Unit"]

\* into_jni of bool, the integers, the floats and JavaChar: no JNIEnv call.
PrimIntoJni(t, nv) ==
    CASE t.name = "bool" -> JPrim("Bool", IF nv.v THEN 1 ELSE 0)
      [] t.name = "JavaChar" -> JPrim("Char", nv.v)
      [] t.name \in {"f32", "f64"} -> JPrim(PrimLane(t.name), nv.v)
      [] OTHER -> JPrim(PrimLane(t.name), CastToLane(t.name, nv.v))

\* <String as JavaType>::into_jni
StringIntoJni(nv, c) ==
    LET e == EnvCall(c, "new_string", JNull, nv.v)
    IN  IF e.ok THEN Done(Ok(JStringObj(nv.v)), e.c)
        ELSE Done(Err(map_jni_error(e.error)), e.c)

\* The Rust type each jni::sys lane alias names (jbyte = i8, jshort = i16, ...).
LaneAlias(lane) ==
    CASE lane = "Byte" -> "i8"
      [] lane = "Short" -> "i16"
      [] lane = "Int" -> "i32"
      [] lane = "Long" -> "i64"
      [] lane = "Float" -> "f32"
      [] lane = "Double" -> "f64"
      [] lane = "Bool" -> "u8"
      [] lane = "Char" -> "u16"

\* The left operand of the assert_eq!(TypeId::of::<..>(), TypeId::of::<jlane>()) in
\* each JniArray impl that reinterprets memory: the signed type of the lane, written
\* out in the impl, also in the impls for u8, u16, u32 and u64.
AssertedType(n) ==
    CASE n \in {"u8", "i8"} -> "i8"
      [] n \in {"u16", "i16"} -> "i16"
      [] n \in {"u32", "i32"} -> "i32"
      [] n \in {"u64", "i64"} -> "i64"
      [] n = "f32" -> "f32"
      [] n = "f64" -> "f64"

\* The JniArray impls that copy element by element (bool, JavaChar): no assert, no
\* reinterpretation.
CopiesPerElement(n) == n \in {"bool", "JavaChar"}

\* JniArray<prim> for J<Prim>Array, into_jni.
PrimArrayIntoJni(t, nv, c) ==
    LET lane == PrimLane(t.name)
        e1 == EnvCall(c, "new_primitive_array", JNull, Len(nv.v))
    IN  IF ~e1.ok THEN Done(Err(map_jni_error(e1.error)), e1.c)
        ELSE IF CopiesPerElement(t.name)
        THEN LET jslice == [i \in 1..Len(nv.v) |-> PrimIntoJni(t, nv.v[i]).v]
                 e2 == EnvCall(e1.c, "set_array_region", JNull, jslice)
             IN  IF ~e2.ok THEN Done(Err(map_jni_error(e2.error)), e2.c)
                 ELSE Done(Ok(JArrayObj("[" \o PrimSignature(t.name), jslice)), e2.c)
        ELSE IF AssertedType(t.name) # LaneAlias(lane)
        THEN Done([tag |-> "Panic"], e1.c)
        ELSE LET slice == [i \in 1..Len(nv.v) |-> CastToLane(t.name, nv.v[i].v)]
                 cast == [e1.c EXCEPT !.bulk =
                             Append(@, [native |-> t.name, lane |-> LaneAlias(lane),
                                        asserted |-> AssertedType(t.name)])]
                 e2 == EnvCall(cast, "set_array_region", JNull, slice)
             IN  IF ~e2.ok THEN Done(Err(map_jni_error(e2.error)), e2.c)
                 ELSE Done(Ok(JArrayObj("[" \o PrimSignature(t.name), slice)), e2.c)

\* JniArray<T> for JObjectArray, into_jni: the loop over input.into_vec().
ElementsIntoJni(t, cls, i, input, c, array) ==
    IF i > Len(input) THEN Done(Ok(JArrayObj("[" \o cls, array)), c)
    ELSE LET r == into_jni(t, input[i], c)
         IN  IF ~IsOk(r.r) THEN r
             ELSE LET e == EnvCall(r.c, "set_object_array_element", JNull, i - 1)
                  IN  IF ~e.ok THEN Done(Err(map_jni_error(e.error)), e.c)
                      ELSE ElementsIntoJni(t, cls, i + 1, input, e.c, Append(array, r.r.val))

\* env.new_object_array(input.len() as jsize, T::JVM_PARAM_SIGNATURE(), JObject::null())
ObjectArrayIntoJni(t, nv, c) ==
    LET q == QuerySignature(t, c)
        e == EnvCallSig(q.c, "new_object_array", JNull, Len(nv.v), q.sig)
    IN  IF ~e.ok THEN Done(Err(map_jni_error(e.error)), e.c)
        ELSE ElementsIntoJni(t, q.sig, 1, nv.v, e.c, <<>>)

\* `#(let #field_names = JValueOwned::from(into_jni(field, env)?);)*`, in declared order.
FieldsIntoJni(fields, i, vals, c, args) ==
    IF i > Len(fields) THEN Done(Ok(args), c)
    ELSE LET r == into_jni(fields[i].ty, vals[i], c)
         IN  IF ~IsOk(r.r) THEN r
             ELSE FieldsIntoJni(fields, i + 1, vals, r.c, Append(args, r.r.val))

\* ["(", #(JVM_PARAM_SIGNATURE(),)* ")V"].join("")
RECURSIVE JoinSignatures(_, _, _)
JoinSignatures(fields, i, c) ==
    IF i > Len(fields) THEN [sig |-> "", c |-> c]
    ELSE LET q == QuerySignature(fields[i].ty, c)
             rest == JoinSignatures(fields, i + 1, q.c)
         IN  [sig |-> q.sig \o rest.sig, c |-> rest.c]
CtorSignature(fields, c) ==
    LET j == JoinSignatures(fields, 1, c)
    IN  [sig |-> "(" \o j.sig \o ")V", c |-> j.c]

\* env.new_object(class, signature, args) after the fields were converted.
NewObjectOf(cls, fields, vals, c) ==
    LET r == FieldsIntoJni(fields, 1, vals, c, <<>>)
    IN  IF ~IsOk(r.r) THEN r
        ELSE LET s == CtorSignature(fields, r.c)
                 e == EnvCallSig(s.c, "new_object", JNull, cls, s.sig)
             IN  IF ~e.ok THEN Done(Err(map_jni_error(e.error)), e.c)
                 ELSE Done(Ok(JNew(cls, s.sig, r.r.val)), e.c)

\* impl_struct_gen: into_jni of a struct.
StructIntoJni(t, nv, c) == NewObjectOf(JvmClassName(t), t.fields, nv.v, c)

VariantNamed(t, name) == CHOOSE v \in {t.variants[i] : i \in DOMAIN t.variants} : v.name = name

\* impl_enum_gen, tagged union: into_jni (`match self`).
\* The arm of a named variant converts the bound fields (`into_jni(#field_idents, env)`
\* with #field_idents the field names); the arm of a tuple variant binds the fields as
\* field_0, field_1, .. but #field_idents are the integer literals 0, 1, .., so what
\* it converts is `into_jni(0, env)`, `into_jni(1, env)`, ..: the positions.
UnionIntoJni(t, nv, c) ==
    LET v == VariantNamed(t, nv.variant)
        converted == IF v.kind = "Tuple" THEN [i \in DOMAIN v.fields |-> NInt(i - 1)]
                     ELSE nv.v
    IN  NewObjectOf(JvmVariantName(t, v), v.fields, converted, c)

\* impl_enum_gen, payload-less enum: into_jni (get_static_field(..)?.l()).
EnumIntoJni(t, nv, c) ==
    LET e == EnvCallSig(c, "get_static_field",
                        [kind |-> "Class", null |-> FALSE, class |-> JvmClassName(t)],
                        nv.variant, JVM_PARAM_SIGNATURE(t))
    IN  IF ~e.ok THEN Done(Err(map_jni_error(e.error)), e.c)
        ELSE Done(jvalue_l([kind |-> "Object", null |-> FALSE,
                            class |-> QUALIFIED_NAME(t), constant |-> nv.variant]), e.c)

into_jni(t, nv, c) ==
    CASE t.k = "prim" -> Done(Ok(PrimIntoJni(t, nv)), c)
      [] t.k = "string" -> StringIntoJni(nv, c)
      [] t.k = "unit" -> Done(Ok(JUnit), c)
      [] t.k = "array" -> IF t.elem.k = "prim" THEN PrimArrayIntoJni(t.elem, nv, c)
                          ELSE ObjectArrayIntoJni(t.elem, nv, c)
      [] t.k = "struct" -> StructIntoJni(t, nv, c)
      [] t.k = "union" -> UnionIntoJni(t, nv, c)
      [] t.k = "enum" -> EnumIntoJni(t, nv, c)

\* EXCEPTION_NULL() of bool, the integers, the floats and JavaChar.
PrimExceptionNull(n) ==
    CASE n = "bool" -> JPrim("Bool", 0)
      [] n \in {"f32", "f64"} -> JPrim(PrimLane(n), "0.0")
      [] OTHER -> JPrim(PrimLane(n), 0)

\* JavaReturn::EXCEPTION_NULL()
EXCEPTION_NULL(t) ==
    CASE t.k = "prim" -> PrimExceptionNull(t.name)
      [] t.k = "unit" -> JUnit
      [] t.k = "string" -> JNull
      [] t.k = "array" -> JNull
      [] t.k \in {"struct", "union", "enum"} -> JNull

(***************************************************************************)
(* Spec: one call through a native-callable entry point.  jmodule turns an *)
(* `extern "jni"` function of an impl block into an export_fn; the JVM     *)
(* then calls it with foreign values.                                      *)
(***************************************************************************)
MaxEnvCalls == 7     \* the JNIEnv calls of one conversion the runtime may fail

\* A function signature as jmodule reads it: receiver (if any), inputs, output, and
\* whether it is async, const or generic.
Fn(name, receiver, inputs, output) ==
    [name |-> name, receiver |-> receiver, inputs |-> inputs, output |-> output,
     unsupported |-> "none"]

Methods ==
    { Fn("flag", <<>>, <<Prim("bool"), StringT>>, Prim("bool")),
      Fn("greet", <<PointT>>, <<StringT>>, StringT),
      Fn("names", <<>>, <<ArrayT(StringT)>>, ArrayT(Prim("u8"))),
      Fn("bytes", <<>>, <<ArrayT(Prim("u8"))>>, ArrayT(StringT)),
      Fn("area", <<>>, <<ShapeT>>, Prim("f64")),
      Fn("next", <<>>, <<ColorT>>, ColorT),
      Fn("reset", <<>>, <<Prim("i32"), Prim("JavaChar")>>, UnitT),
      Fn("origin", <<>>, <<>>, PointT),
      Fn("mesh", <<>>, <<>>, MeshT),
      Fn("weigh", <<MeshT>>, <<>>, Prim("i32")),
      Fn("tile", <<MeshT>>, <<>>, ArrayT(ArrayT(StringT))),
      Fn("grow", <<ShapeT>>, <<Prim("u8")>>, ShapeT),
      Fn("len", <<>>, <<StringT>>, Prim("i32")),
      Fn("initial", <<>>, <<StringT>>, Prim("JavaChar")),
      Fn("checksum", <<>>, <<StringT>>, Prim("u8")),
      Fn("hash", <<>>, <<StringT>>, Prim("i64")),
      Fn("width", <<>>, <<StringT>>, Prim("i16")),
      Fn("ratio", <<>>, <<StringT>>, Prim("f32")),
      [Fn("poll", <<>>, <<>>, UnitT) EXCEPT !.unsupported = "async"] }

\* The inputs the export_fn converts, in the order it converts them: `#self_mapper`
\* first, then `#(#input_mappers),*`.
AllInputs(m) == m.receiver \o m.inputs

SeqsUpTo(S, n) == UNION {[1..k -> S] : k \in 0..n}

\* The foreign values the JVM may pass for a parameter of each type.
RECURSIVE JValuesOf(_)
JValuesOf(t) ==
    CASE t.k = "prim" ->
            (CASE t.name = "bool" -> {JPrim("Bool", 0), JPrim("Bool", 1)}
               [] t.name = "u8" -> {JPrim("Byte", -56), JPrim("Byte", 5)}
               [] t.name = "i32" -> {JPrim("Int", -1), JPrim("Int", 7)}
               [] t.name = "JavaChar" -> {JPrim("Char", 65)}
               [] t.name = "f64" -> {JPrim("Double", "1.5")})
      [] t.k = "string" -> {JNull, JStringObj("hi")}
      [] t.k = "array" ->
            {JNull} \cup
            {JArrayObj("[" \o JVM_PARAM_SIGNATURE(t.elem), es) :
                es \in SeqsUpTo(IF t.elem.k = "prim"
                                THEN {jv.v : jv \in JValuesOf(t.elem)}
                                ELSE JValuesOf(t.elem), MaxArrayLen)}
      [] t.k = "struct" ->
            {JNull} \cup
            (IF t.name = "Mesh"
             THEN {JObj(QUALIFIED_NAME(t),
                        [ids |-> JArrayObj("[I", <<7>>),
                         tags |-> JArrayObj("[Ljava/lang/String;", <<JStringObj("hi")>>)])}
             ELSE {JObj(QUALIFIED_NAME(t), [name |-> s, x |-> JPrim("Int", 7)]) :
                      s \in JValuesOf(StringT)})
      [] t.k = "union" ->
            {JNull,
             JObj("geo.Shape$Dot", [none |-> JNull]),
             JObj("geo.Shape$Side", [field_0 |-> JPrim("Int", 7)]),
             JObj("geo.Shape$Gone", [none |-> JNull])} \cup
            {JObj("geo.Shape$Label", [text |-> s]) : s \in JValuesOf(StringT)}
      [] t.k = "enum" ->
            {JNull} \cup
            {JEnumObj(QUALIFIED_NAME(t), k) : k \in -1 .. Len(t.variants) + 1}

\* The native values a function body may return for each output type.
RECURSIVE NativeValuesOf(_)
NativeValuesOf(t) ==
    CASE t.k = "prim" ->
            (CASE t.name = "bool" -> {NBool(TRUE), NBool(FALSE)}
               [] t.name = "u8" -> {NInt(200), NInt(5)}
               [] t.name = "i32" -> {NInt(-1), NInt(7)}
               [] t.name = "JavaChar" -> {NChar(65)}
               [] t.name = "i16" -> {NInt(-3)}
               [] t.name = "i64" -> {NInt(9)}
               [] t.name = "f32" -> {NFloat("2.5")}
               [] t.name = "f64" -> {NFloat("1.5")})
      [] t.k = "string" -> {NStr("hi")}
      [] t.k = "unit" -> {NUnit}
      [] t.k = "array" -> {NSeq(es) : es \in SeqsUpTo(NativeValuesOf(t.elem), MaxArrayLen)}
      [] t.k = "struct" ->
            IF t.name = "Mesh"
            THEN {NStruct(t.name, <<NSeq(<<NInt(7)>>), NSeq(<<NStr("hi")>>)>>)}
            ELSE {NStruct(t.name, <<NStr("hi"), NInt(7)>>)}
      [] t.k = "union" -> {NVariant(t.name, "Dot", <<>>),
                           NVariant(t.name, "Label", <<NStr("hi")>>),
                           NVariant(t.name, "Side", <<NInt(7)>>)}
      [] t.k = "enum" -> {NVariant(t.name, t.variants[i], <<>>) : i \in DOMAIN t.variants}

\* All the ways the JVM may call method m: one foreign value per input.
RECURSIVE ArgLists(_, _)
ArgLists(types, i) ==
    IF i > Len(types) THEN {<<>>}
    ELSE {<<a>> \o rest : a \in JValuesOf(types[i]), rest \in ArgLists(types, i + 1)}

\* What the foreign runtime does to the JNIEnv calls of one conversion.
Oracles == {NoFail} \cup {[at |-> n, err |-> e] : n \in 1..MaxEnvCalls, e \in JniErrors}

Init ==
    /\ NAME = Unset
    /\ SIGNATURE = Unset
    /\ queries = <<>>
    /\ method \in Methods
    /\ jargs \in ArgLists(AllInputs(method), 1)
    /\ pc = "jmodule"
    /\ idx = 0
    /\ natives = <<>>
    /\ res = [tag |-> "None"]
    /\ out = [n |-> "none"]
    /\ calls = <<>>
    /\ envErr = "none"
    /\ throws = <<>>
    /\ bulk = <<>>
    /\ ret = [kind |-> "none"]
    /\ IdlePure

\* jmodule, for one `extern "jni"` function: async, const and generic functions are
\* compile errors; every other function gets its export_fn.
jmodule ==
    /\ pc = "jmodule"
    /\ pc' = IF method.unsupported # "none" THEN "rejected"
             ELSE IF Len(AllInputs(method)) = 0 THEN "body" ELSE "args"
    /\ UNCHANGED <<method, jargs, idx, natives, res, out, calls, envErr, throws, bulk, ret>>

\* The conversion of the next input without the `?`: a failure is kept in res and the
\* next input is converted all the same.
ConvertInputKeepGoing ==
    /\ pc = "args"
    /\ \E fail \in Oracles :
         LET t == AllInputs(method)[idx + 1]
             r == from_jni(t, jargs[idx + 1], NewCtx(fail))
         IN  /\ calls' = calls \o r.c.calls
             /\ SIGNATURE' = r.c.cell
             /\ envErr' = IF r.c.err # "none" THEN r.c.err ELSE envErr
             /\ natives' = IF IsOk(r.r) THEN Append(natives, r.r.val) ELSE natives
             /\ idx' = idx + 1
             /\ res' = IF IsOk(r.r) \/ res.tag = "Err" THEN res ELSE r.r
             /\ pc' = IF idx + 1 < Len(AllInputs(method)) THEN "args"
                      ELSE IF res'.tag = "Err" THEN "match" ELSE "body"
    /\ UNCHANGED <<method, jargs, out, throws, bulk, ret>>

\* export_fn: `<T as JavaType>::from_jni(param, &mut env)?` for the next input.
ConvertInput ==
    /\ pc = "args"
    /\ \E fail \in Oracles :
         LET t == AllInputs(method)[idx + 1]
             r == from_jni(t, jargs[idx + 1], NewCtx(fail))
         IN  /\ calls' = calls \o r.c.calls
             /\ SIGNATURE' = r.c.cell
             /\ envErr' = IF r.c.err # "none" THEN r.c.err ELSE envErr
             /\ IF IsOk(r.r)
                THEN /\ natives' = Append(natives, r.r.val)
                     /\ idx' = idx + 1
                     /\ pc' = IF idx + 1 = Len(AllInputs(method)) THEN "body" ELSE "args"
                     /\ res' = res
                ELSE /\ res' = r.r
                     /\ pc' = "match"
                     /\ UNCHANGED <<natives, idx>>
    /\ UNCHANGED <<method, jargs, out, throws, bulk, ret>>

\* export_fn: `let out = Self::func(..)`: the native function body runs.
Body ==
    /\ pc = "body"
    /\ out' \in NativeValuesOf(method.output)
    /\ pc' = "ret"
    /\ UNCHANGED <<method, jargs, idx, natives, res, calls, envErr, throws, bulk, ret>>

\* export_fn: `<Out as JavaReturn>::into_jni(out, &mut env)?`, the end of the try block.
ConvertReturn ==
    /\ pc = "ret"
    /\ \E fail \in Oracles :
         LET r == into_jni(method.output, out, NewCtx(fail))
         IN  /\ calls' = calls \o r.c.calls
             /\ SIGNATURE' = r.c.cell
             /\ envErr' = IF r.c.err # "none" THEN r.c.err ELSE envErr
             /\ bulk' = bulk \o r.c.bulk
             /\ res' = r.r
             /\ pc' = IF r.r.tag = "Panic" THEN "panicked" ELSE "match"
    /\ UNCHANGED <<method, jargs, idx, natives, out, throws, ret>>

\* `Err(Some(exception)) =>` is the one arm of `match res` that calls throw_new.
Raises(r) == r.tag = "Err" /\ r.exc.some

\* export_fn: `match res`, the arms Ok(out) and Err(None).
ReturnQuietly ==
    /\ pc = "match"
    /\ ~Raises(res)
    /\ ret' = IF IsOk(res) THEN res.val ELSE EXCEPTION_NULL(method.output)
    /\ pc' = "returned"
    /\ UNCHANGED <<method, jargs, idx, natives, res, out, calls, envErr, throws, bulk>>

\* export_fn: `match res`, the arm Err(Some(exception)):
\* env.throw_new(class, msg).expect("could not throw exception!"), then EXCEPTION_NULL.
ThrowAndReturn ==
    /\ pc = "match"
    /\ Raises(res)
    /\ \E thrown \in {"Ok"} \cup JniErrors :
         /\ throws' = Append(throws, [class |-> IF res.exc.some THEN res.exc.class ELSE "",
                                      msg |-> IF res.exc.some THEN res.exc.msg ELSE "",
                                      at |-> pc, result |-> thrown])
         /\ IF thrown = "Ok"
            THEN /\ ret' = EXCEPTION_NULL(method.output)
                 /\ pc' = "returned"
            ELSE /\ pc' = "panicked"
                 /\ ret' = ret
    /\ UNCHANGED <<method, jargs, idx, natives, res, out, calls, envErr, bulk>>

Next ==
    \/ jmodule /\ UNCHANGED <<cacheVars, pureVars>>
    \/ ConvertInput /\ UNCHANGED <<NAME, queries, pureVars>>
    \/ Body /\ UNCHANGED <<cacheVars, pureVars>>
    \/ ConvertReturn /\ UNCHANGED <<NAME, queries, pureVars>>
    \/ ReturnQuietly /\ UNCHANGED <<cacheVars, pureVars>>
    \/ ThrowAndReturn /\ UNCHANGED <<cacheVars, pureVars>>

Spec == Init /\ [][Next]_vars

(***************************************************************************)
(* Properties of the entry point.                                          *)
(***************************************************************************)
Finished == pc \in {"returned", "panicked"}
\* The conversion of input i has ended in an error.
InputFailed(i) == pc \in {"match", "returned", "panicked"} /\ idx = i - 1
                  /\ i <= Len(AllInputs(method))

(***************************************************************************)
(* C2: per call, an exception is raised on the JVM (throw_new succeeds)    *)
(* exactly once when the outcome is SynthesizedException (Err(Some)) and   *)
(* not at all when it is Success or PendingException (Err(None)); the      *)
(* raise is made only by `match res`, after every conversion has ended.    *)
(***************************************************************************)
C2_Raised(t) == t.result = "Ok"
C2_RaisedOnceAtBoundary ==
    /\ \A i \in DOMAIN throws : throws[i].at = "match"
    /\ ~Finished => throws = <<>>
    /\ Finished => Len(SelectSeq(throws, C2_Raised)) = IF IsSynthesized(res) THEN 1 ELSE 0
    /\ \A i \in DOMAIN throws : IsSynthesized(res) /\ throws[i].class = res.exc.class
                                /\ throws[i].msg = res.exc.msg

(***************************************************************************)
(* C3: a JNIEnv call of a conversion that fails with Error::JavaException  *)
(* (an exception is already pending) gives the outcome Err(None); any      *)
(* other failing JNIEnv call gives Err(Some(..)).                          *)
(***************************************************************************)
C3_PendingStaysPending ==
    pc \in {"match", "returned", "panicked"} =>
        /\ envErr = "JavaException" => IsPending(res)
        /\ envErr \notin {"none", "JavaException"} => IsSynthesized(res)

(***************************************************************************)
(* C4: on Err(None) and Err(Some) the entry point returns the sentinel of  *)
(* its return type (false, 0, 0.0, null handle, unit); on Ok it returns    *)
(* the converted result.                                                   *)
(***************************************************************************)
C4_Sentinel(t) ==
    CASE t.k = "prim" /\ t.name = "bool" -> JPrim("Bool", 0)
      [] t.k = "prim" /\ t.name \in {"u8", "i8"} -> JPrim("Byte", 0)
      [] t.k = "prim" /\ t.name \in {"u16", "i16"} -> JPrim("Short", 0)
      [] t.k = "prim" /\ t.name \in {"u32", "i32"} -> JPrim("Int", 0)
      [] t.k = "prim" /\ t.name \in {"u64", "i64"} -> JPrim("Long", 0)
      [] t.k = "prim" /\ t.name = "JavaChar" -> JPrim("Char", 0)
      [] t.k = "prim" /\ t.name = "f32" -> JPrim("Float", "0.0")
      [] t.k = "prim" /\ t.name = "f64" -> JPrim("Double", "0.0")
      [] t.k = "unit" -> JUnit
      [] OTHER -> JNull

C4_SentinelOnFailure ==
    Finished =>
        /\ pc = "returned"
        /\ IF IsOk(res) THEN ret = res.val ELSE ret = C4_Sentinel(method.output)

(***************************************************************************)
(* C5: no failure during a native-callable entry panics the process.       *)
(***************************************************************************)
C5_NeverPanics == pc # "panicked"

(***************************************************************************)
(* C6: from_jni of a tagged union tests the variant classes in declaration *)
(* order, decodes the first variant the object is an instance of, and      *)
(* tests or reads no variant declared after it.                            *)
(***************************************************************************)
C6_IsTest(call) == call.op = "is_instance_of"
C6_IsFieldRead(call) == call.op = "get_field"
C6_FirstMatch(t, obj) ==
    LET hits == {i \in DOMAIN t.variants : IsInstanceOf(obj, VariantClass(t, t.variants[i]))}
    IN  IF hits = {} THEN 0 ELSE CHOOSE i \in hits : \A j \in hits : i <= j

C6_FirstMatchWins ==
    (AllInputs(method) # <<>> /\ AllInputs(method)[1].k = "union") =>
        LET t == AllInputs(method)[1]
            obj == jargs[1]
            tests == SelectSeq(calls, C6_IsTest)
            reads == SelectSeq(calls, C6_IsFieldRead)
            first == C6_FirstMatch(t, obj)
        IN  /\ \A j \in DOMAIN tests :
                 j <= Len(t.variants) /\ tests[j].arg = JvmVariantName(t, t.variants[j])
            /\ first # 0 => Len(tests) <= first
            /\ idx >= 1 => first # 0 /\ natives[1].variant = t.variants[first].name
            /\ \A j \in DOMAIN reads :
                 /\ first # 0
                 /\ reads[j].arg \in {t.variants[first].fields[f].name :
                                         f \in DOMAIN t.variants[first].fields}

C6_Witness ==
    /\ method.name = "area" /\ jargs[1].null
    /\ idx = 1 /\ natives[1].variant = "Dot"
    /\ Len(SelectSeq(calls, C6_IsTest)) = 1

(***************************************************************************)
(* C7: when the object is an instance of none of the variant classes,      *)
(* from_jni of a tagged union gives Err(Some(RuntimeException, msg)) and   *)
(* msg names the object's runtime class.                                   *)
(***************************************************************************)
C7_IsClassLookup(call) == call.op = "get_object_class"
C7_NoMatchNamesClass ==
    (/\ AllInputs(method) # <<>> /\ AllInputs(method)[1].k = "union"
     /\ SelectSeq(calls, C7_IsClassLookup) # <<>>) =>
        /\ InputFailed(1)
        /\ res = Err(Some("java/lang/RuntimeException",
                          "JNI: Could not match " \o AllInputs(method)[1].name
                              \o " as Rust Enum: " \o jargs[1].class))

(***************************************************************************)
(* C8: from_jni of a payload-less enum with n variants decodes ordinal k,  *)
(* 0 <= k < n, to the k-th declared variant, and gives                     *)
(* Err(Some(RuntimeException, msg)) with k in msg for every other ordinal. *)
(***************************************************************************)
C8_Decimal(k) ==
    CASE k = -2 -> "-2" [] k = -1 -> "-1" [] k = 0 -> "0" [] k = 1 -> "1"
      [] k = 2 -> "2" [] k = 3 -> "3" [] k = 4 -> "4" [] k = 5 -> "5"

C8_OrdinalDecoding ==
    (/\ AllInputs(method) # <<>> /\ AllInputs(method)[1].k = "enum"
     /\ ~jargs[1].null /\ pc \notin {"jmodule", "args"}
     /\ ~(InputFailed(1) /\ envErr # "none")) =>
        LET t == AllInputs(method)[1]
            k == jargs[1].ordinal
        IN  IF 0 <= k /\ k < Len(t.variants)
            THEN idx = 1 /\ natives[1] = NVariant(t.name, t.variants[k + 1], <<>>)
            ELSE /\ InputFailed(1)
                 /\ res = Err(Some("java/lang/RuntimeException",
                                   "enum ordinal out of range: " \o C8_Decimal(k)))

C8_Witness ==
    /\ method.name = "next" /\ pc = "returned" /\ ~jargs[1].null
    /\ jargs[1].ordinal = Len(ColorT.variants)
    /\ res = Err(Some("java/lang/RuntimeException", "enum ordinal out of range: 2"))

(***************************************************************************)
(* C9: a primitive array binding whose native element type differs from    *)
(* the JNI lane in width or signedness is rejected by jmodule, its memory  *)
(* is never reinterpreted as the lane, and the check before a bulk copy    *)
(* compares the native element type of the binding with the lane type.     *)
(***************************************************************************)
C9_Bits(n) ==
    CASE n \in {"u8", "i8", "bool"} -> 8
      [] n \in {"u16", "i16", "JavaChar"} -> 16
      [] n \in {"u32", "i32", "f32"} -> 32
      [] n \in {"u64", "i64", "f64"} -> 64
C9_Signed(n) == n \in {"i8", "i16", "i32", "i64", "f32", "f64"}
C9_LaneDiffers(n) ==
    LET lane == LaneAlias(PrimLane(n))
    IN  n # "bool" /\ n # "JavaChar"
        /\ (C9_Bits(n) # C9_Bits(lane) \/ C9_Signed(n) # C9_Signed(lane))
C9_PrimArrays(m) ==
    {t \in {AllInputs(m)[i] : i \in DOMAIN AllInputs(m)} \cup {m.output} :
        t.k = "array" /\ t.elem.k = "prim"}

C9_MismatchedLaneRejected ==
    /\ (\E t \in C9_PrimArrays(method) : C9_LaneDiffers(t.elem.name))
           => pc \in {"jmodule", "rejected"}
    /\ \A i \in DOMAIN bulk :
           /\ ~C9_LaneDiffers(bulk[i].native)
           /\ bulk[i].asserted = bulk[i].native

(***************************************************************************)
(* C10: from_jni of a null foreign String gives                            *)
(* Err(Some(NullPointerException, ..)), never Ok and never Err(None), and  *)
(* makes no JNIEnv call on the null handle; also for a String that is a    *)
(* field of an aggregate or an element of an array.                        *)
(***************************************************************************)
C10_HasNullString(t, jv) ==
    CASE t.k = "string" -> jv.null
      [] t.k = "array" /\ t.elem.k = "string" ->
            ~jv.null /\ \E i \in DOMAIN jv.elems : jv.elems[i].null
      [] t.k = "struct" /\ t.name = "Point" -> ~jv.null /\ jv.fields.name.null
      [] t.k = "union" -> ~jv.null /\ jv.class = "geo.Shape$Label" /\ jv.fields.text.null
      [] OTHER -> FALSE

C10_NullPointer == Err(Some("java/lang/NullPointerException", "expected java.lang.String"))

C10_NullStringRejected ==
    /\ \A i \in DOMAIN calls : ~(calls[i].op = "get_string" /\ calls[i].on.null)
    /\ \A i \in DOMAIN jargs :
         C10_HasNullString(AllInputs(method)[i], jargs[i]) =>
            /\ idx < i
            /\ (InputFailed(i) /\ envErr = "none") => res = C10_NullPointer

C10_Witness ==
    /\ method.name = "greet" /\ pc = "returned"
    /\ ~jargs[1].null /\ jargs[1].fields.name.null
    /\ res = C10_NullPointer /\ Len(calls) = 1

(***************************************************************************)
(* SpecScalar: one value of a scalar type converted to its JNI lane with   *)
(* into_jni and back with from_jni, and the conversions between a Rust     *)
(* char and a JavaChar.                                                    *)
(***************************************************************************)
\* The same conversion with `<` for `<=`.
from_char_below_max(c) == IF c < 65535 THEN [some |-> TRUE, v |-> NChar(c)] ELSE [some |-> FALSE]

\* JavaChar::from_char
from_char(c) == IF c <= 65535 THEN [some |-> TRUE, v |-> NChar(c)] ELSE [some |-> FALSE]

\* char::try_from(u32): every scalar value but the surrogate halves.
char_try_from(u) ==
    IF u <= 1114111 /\ ~(55296 <= u /\ u <= 57343)
    THEN [ok |-> TRUE, v |-> u] ELSE [ok |-> FALSE]

\* JavaChar::into_char
into_char(jc) ==
    LET r == char_try_from(jc.v)
    IN  IF r.ok THEN [some |-> TRUE, v |-> r.v] ELSE [some |-> FALSE]

ScalarTypes == {"bool", "i8", "u8", "i16", "u16", "i32", "u32", "i64", "u64", "JavaChar"}

\* Values of each scalar type: the ends of its range, the sign boundary and some
\* values between.
ScalarValues(n) ==
    CASE n = "bool" -> {NBool(TRUE), NBool(FALSE)}
      [] n = "i8" -> {NInt(v) : v \in {-128, -56, -1, 0, 5, 127}}
      [] n = "u8" -> {NInt(v) : v \in {0, 5, 127, 128, 200, 255}}
      [] n = "i16" -> {NInt(v) : v \in {-32768, -3, 0, 300, 32767}}
      [] n = "u16" -> {NInt(v) : v \in {0, 300, 32767, 32768, 40000, 65535}}
      [] n = "i32" -> {NInt(v) : v \in {-2147483647, -1, 0, 7, 70000, 2147483647}}
      [] n = "i64" -> {NInt(v) : v \in {-2147483647, -1, 0, 9, 2147483647}}
      [] n = "u32" -> {NInt(Wide(FALSE, d)) :
                          d \in {<<0, 0>>, <<0, 7>>, <<32767, 65535>>, <<32768, 0>>,
                                 <<45776, 24064>>, <<65535, 65535>>}}
      [] n = "u64" -> {NInt(Wide(FALSE, d)) :
                          d \in {<<0, 0, 0, 0>>, <<0, 0, 0, 9>>, <<32767, 65535, 65535, 65535>>,
                                 <<32768, 0, 0, 0>>, <<65535, 65535, 65535, 65535>>}}
      [] n = "JavaChar" -> {NChar(u) : u \in {0, 65, 55296, 57343, 65535}}

\* Rust chars (code points, never a surrogate half) and 16-bit code units.
CodePoints == {0, 65, 55295, 57344, 65535, 65536, 128512, 1114111}
CodeUnits == {0, 65, 55295, 55296, 56319, 56320, 57343, 57344, 65535}

InitScalar ==
    /\ NAME = Unset
    /\ SIGNATURE = Unset
    /\ queries = <<>>
    /\ IdleCall
    /\ given = [step |-> "idle"]
    /\ once = [step |-> "idle"]
    /\ derived = [step |-> "idle"]
    /\ checked = [step |-> "idle"]
    /\ asked = [step |-> "idle"]
    /\ export = [step |-> "idle"]
    /\ emit = [step |-> "idle"]
    /\ \/ \E n \in ScalarTypes : \E v \in ScalarValues(n) :
             trip = [step |-> "native", kind |-> "scalar", ty |-> n, v |-> v]
       \/ \E c \in CodePoints : trip = [step |-> "native", kind |-> "char", v |-> c]
       \/ \E u \in CodeUnits : trip = [step |-> "native", kind |-> "unit", v |-> NChar(u)]

\* <T as JavaType>::into_jni of a scalar
ScalarIntoJni ==
    /\ trip.step = "native" /\ trip.kind = "scalar"
    /\ trip' = [step |-> "lane", kind |-> "scalar", ty |-> trip.ty, v |-> trip.v,
                j |-> PrimIntoJni(Prim(trip.ty), trip.v)]

\* <T as JavaType>::from_jni of the lane value
ScalarFromJni ==
    /\ trip.step = "lane" /\ trip.kind = "scalar"
    /\ trip' = [step |-> "back", kind |-> "scalar", ty |-> trip.ty, v |-> trip.v,
                j |-> trip.j, r |-> PrimFromJni(Prim(trip.ty), trip.j)]

\* JavaChar::from_char(c)
CharFromChar ==
    /\ trip.step = "native" /\ trip.kind = "char"
    /\ trip' = [step |-> "lane", kind |-> "char", v |-> trip.v, j |-> from_char(trip.v)]

\* JavaChar::into_char, of the unit from_char gave or of any unit
CharIntoChar ==
    \/ /\ trip.step = "lane" /\ trip.kind = "char" /\ trip.j.some
       /\ trip' = [step |-> "back", kind |-> "char", v |-> trip.v, j |-> trip.j,
                   r |-> into_char(trip.j.v)]
    \/ /\ trip.step = "native" /\ trip.kind = "unit"
       /\ trip' = [step |-> "back", kind |-> "unit", v |-> trip.v, r |-> into_char(trip.v)]

NextScalar ==
    \/ ScalarIntoJni /\ UNCHANGED <<cacheVars, callVars, asked, export, emit,
                    given, once, derived, checked>>
    \/ ScalarFromJni /\ UNCHANGED <<cacheVars, callVars, asked, export, emit,
                    given, once, derived, checked>>
    \/ CharFromChar /\ UNCHANGED <<cacheVars, callVars, asked, export, emit,
                    given, once, derived, checked>>
    \/ CharIntoChar /\ UNCHANGED <<cacheVars, callVars, asked, export, emit,
                    given, once, derived, checked>>

SpecScalar == InitScalar /\ [][NextScalar]_vars

(***************************************************************************)
(* C11: for every integer type, bool and JavaChar and every value v,       *)
(* from_jni(into_jni(v)) = v; an unsigned value crosses in the signed lane *)
(* of the same width as its two's-complement reinterpretation              *)
(* (u8 200 -> jbyte -56 -> 200).                                           *)
(***************************************************************************)
C11_Unsigned == {"u8", "u16", "u32", "u64"}
C11_Width(n) == CASE n \in {"u8", "i8"} -> 256 [] n \in {"u16", "i16"} -> 65536
C11_ScalarRoundTrip ==
    (trip.step \in {"lane", "back"} /\ trip.kind = "scalar") =>
        /\ trip.step = "back" => trip.r = trip.v
        /\ trip.j.kind = PrimLane(trip.ty)
        /\ trip.ty \in {"u8", "u16"} =>
              trip.j.v = IF 2 * trip.v.v >= C11_Width(trip.ty)
                         THEN trip.v.v - C11_Width(trip.ty) ELSE trip.v.v
        /\ trip.ty \in {"i8", "i16", "i32", "i64", "JavaChar"} => trip.j.v = trip.v.v
        /\ (trip.ty = "u32" /\ trip.v.v = Wide(FALSE, <<65535, 65535>>))
              => trip.j.v = Wide(TRUE, <<0, 1>>)
        /\ (trip.ty = "u64" /\ trip.v.v = Wide(FALSE, <<32768, 0, 0, 0>>))
              => trip.j.v = Wide(TRUE, <<32768, 0, 0, 0>>)

C11_Witness ==
    /\ trip.step = "back" /\ trip.kind = "scalar" /\ trip.ty = "u8"
    /\ trip.v = NInt(200) /\ trip.j = JPrim("Byte", -56) /\ trip.r = NInt(200)

(***************************************************************************)
(* C12: from_char(c) succeeds exactly when c <= 0xFFFF and gives the unit  *)
(* of the same numeric value; into_char(u) fails exactly when u is a       *)
(* surrogate half (0xD800..0xDFFF) and otherwise gives the code point of   *)
(* the same value; so into_char(from_char(c)) = c for every c <= 0xFFFF.   *)
(***************************************************************************)
C12_IsSurrogate(u) == 55296 <= u /\ u <= 57343
C12_CharConversions ==
    /\ (trip.kind = "char" /\ trip.step \in {"lane", "back"}) =>
          /\ trip.j.some <=> trip.v <= 65535
          /\ trip.j.some => trip.j.v = NChar(trip.v)
          /\ trip.step = "back" => trip.r = [some |-> TRUE, v |-> trip.v]
    /\ (trip.kind = "unit" /\ trip.step = "back") =>
          /\ trip.r.some <=> ~C12_IsSurrogate(trip.v.v)
          /\ trip.r.some => trip.r.v = trip.v.v
    \* every code point that fits is converted back
    /\ (trip.kind = "char" /\ trip.step = "lane" /\ trip.v <= 65535) => ENABLED CharIntoChar

C12_Witness ==
    /\ trip.kind = "char" /\ trip.step = "back" /\ trip.v = 65535
    /\ trip.j = [some |-> TRUE, v |-> NChar(65535)] /\ trip.r = [some |-> TRUE, v |-> 65535]

(***************************************************************************)
(* SpecSignature: JVM_PARAM_SIGNATURE() of one supported type that is not  *)
(* an array: a primitive, String, the () of a void return, or a derived    *)
(* class or enum of some package.                                          *)
(***************************************************************************)
PrimNames == {"bool", "i8", "u8", "i16", "u16", "i32", "u32", "i64", "u64", "f32", "f64",
              "JavaChar"}
Packages == {"geo", "com.app", "a.b.c", "my_pkg.io"}
ClassNames == {"Point", "Shape", "Color", "Big_Int"}
SupportedTypes ==
    {Prim(n) : n \in PrimNames} \cup {StringT, UnitT}
    \cup {StructT(p, n, <<FieldD("x", Prim("i32"))>>) : p \in Packages, n \in ClassNames}
    \cup {UnionT(p, n, <<VariantD("Dot", <<>>)>>) : p \in Packages, n \in ClassNames}
    \cup {EnumT(p, n, <<"RED", "GREEN">>) : p \in Packages, n \in ClassNames}

InitSignature ==
    /\ NAME = Unset
    /\ SIGNATURE = Unset
    /\ queries = <<>>
    /\ IdleCall
    /\ given = [step |-> "idle"]
    /\ once = [step |-> "idle"]
    /\ derived = [step |-> "idle"]
    /\ checked = [step |-> "idle"]
    /\ trip = [step |-> "idle"]
    /\ export = [step |-> "idle"]
    /\ emit = [step |-> "idle"]
    /\ \E t \in SupportedTypes : asked = [step |-> "type", t |-> t]

\* <T as JavaReturn>::JVM_PARAM_SIGNATURE()
JvmParamSignature ==
    /\ asked.step = "type"
    /\ asked' = [step |-> "answered", t |-> asked.t, sig |-> JVM_PARAM_SIGNATURE(asked.t)]

NextSignature ==
    \/ JvmParamSignature /\ UNCHANGED <<cacheVars, callVars, trip, export, emit,
                    given, once, derived, checked>>

SpecSignature == InitSignature /\ [][NextSignature]_vars

(***************************************************************************)
(* C13: the JVM signature of each supported type is the one of the table:  *)
(* boolean Z, 8-bit B, 16-bit S, 32-bit I, 64-bit J (signed or unsigned),  *)
(* float F, double D, code unit C, String Ljava/lang/String;, void V, and  *)
(* for a derived class or enum N of package p, "L" + p with every "." as   *)
(* "/" + "/" + N + ";".                                                    *)
(***************************************************************************)
C13_Slashed(p) ==
    CASE p = "geo" -> "geo" [] p = "com.app" -> "com/app" [] p = "a.b.c" -> "a/b/c"
      [] p = "my_pkg.io" -> "my_pkg/io"
C13_Table(t) ==
    CASE t = Prim("bool") -> "Z"
      [] t \in {Prim("i8"), Prim("u8")} -> "B"
      [] t \in {Prim("i16"), Prim("u16")} -> "S"
      [] t \in {Prim("i32"), Prim("u32")} -> "I"
      [] t \in {Prim("i64"), Prim("u64")} -> "J"
      [] t = Prim("f32") -> "F"
      [] t = Prim("f64") -> "D"
      [] t = Prim("JavaChar") -> "C"
      [] t = StringT -> "Ljava/lang/String;"
      [] t = UnitT -> "V"
      [] OTHER -> "L" \o C13_Slashed(t.package) \o "/" \o t.name \o ";"
C13_SignatureTable == asked.step = "answered" => asked.sig = C13_Table(asked.t)

C13_Witness ==
    /\ asked.step = "answered" /\ asked.t.k = "enum" /\ asked.t.package = "a.b.c"
    /\ asked.sig = "La/b/c/Color;"

(***************************************************************************)
(* SpecExport: the export_name jmodule computes for one `extern "jni"`     *)
(* function of an impl block of a module with a package name.              *)
(***************************************************************************)
MethodNames == {"area", "get_x", "_init_", "len"}

\* The same name with the dots of the package replaced before the underscores
\* are escaped.
export_name_dots_first(package_name, self_type_name, ident) ==
    "Java_" \o Join(Replace(Replace(Chars(package_name), ".", <<"_">>), "_", <<"_", "1">>))
            \o "_" \o Join(Replace(Chars(self_type_name), "_", <<"_", "1">>))
            \o "_" \o Join(Replace(Chars(ident), "_", <<"_", "1">>))

\* format!("Java_{}_{}_{}", package_name.replace('_', "_1").replace('.', "_"),
\*         self_type_name.replace('_', "_1"), ident.replace('_', "_1"))
export_name(package_name, self_type_name, ident) ==
    "Java_" \o Join(Replace(Replace(Chars(package_name), "_", <<"_", "1">>), ".", <<"_">>))
            \o "_" \o Join(Replace(Chars(self_type_name), "_", <<"_", "1">>))
            \o "_" \o Join(Replace(Chars(ident), "_", <<"_", "1">>))

InitExport ==
    /\ NAME = Unset
    /\ SIGNATURE = Unset
    /\ queries = <<>>
    /\ IdleCall
    /\ given = [step |-> "idle"]
    /\ once = [step |-> "idle"]
    /\ derived = [step |-> "idle"]
    /\ checked = [step |-> "idle"]
    /\ trip = [step |-> "idle"]
    /\ asked = [step |-> "idle"]
    /\ emit = [step |-> "idle"]
    /\ \E p \in Packages, c \in ClassNames, m \in MethodNames :
          export = [step |-> "fn", package |-> p, class |-> c, ident |-> m]

\* jmodule: `let export_name = format!(..)` for one function
ExportName ==
    /\ export.step = "fn"
    /\ export' = [step |-> "named", package |-> export.package, class |-> export.class,
                  ident |-> export.ident,
                  name |-> export_name(export.package, export.class, export.ident)]

NextExport ==
    \/ ExportName /\ UNCHANGED <<cacheVars, callVars, trip, asked, emit,
                    given, once, derived, checked>>

SpecExport == InitExport /\ [][NextExport]_vars

(***************************************************************************)
(* C14, as stated: the exported symbol name is "Java_" + the package with  *)
(* every "_" as "_1" and every "." as "_" + the class name with the same   *)
(* escaping + "_" + the method name with the same escaping, the class name *)
(* following the package directly.                                         *)
(***************************************************************************)
RECURSIVE C14_Escaped(_)
C14_Escaped(cs) ==
    IF cs = <<>> THEN ""
    ELSE (CASE Head(cs) = "_" -> "_1" [] Head(cs) = "." -> "_" [] OTHER -> Head(cs))
         \o C14_Escaped(Tail(cs))
C14_SymbolNameAsStated ==
    export.step = "named" =>
        export.name = "Java_" \o C14_Escaped(Chars(export.package))
                              \o C14_Escaped(Chars(export.class))
                              \o "_" \o C14_Escaped(Chars(export.ident))

(***************************************************************************)
(* C14, amended: the exported symbol name is "Java_" + escaped package +   *)
(* "_" + escaped class name + "_" + escaped method name: every "_" of the  *)
(* three names appears as "_1", every "." of the package as a plain "_",   *)
(* and the underscores made from "." or used as separators are not         *)
(* escaped.                                                                *)
(***************************************************************************)
C14_SymbolName ==
    export.step = "named" =>
        export.name = "Java_" \o C14_Escaped(Chars(export.package))
                              \o "_" \o C14_Escaped(Chars(export.class))
                              \o "_" \o C14_Escaped(Chars(export.ident))

C14_Witness ==
    /\ export.step = "named" /\ export.package = "my_pkg.io" /\ export.class = "Big_Int"
    /\ export.ident = "get_x" /\ export.name = "Java_my_1pkg_io_Big_1Int_get_1x"

(***************************************************************************)
(* SpecEmit: JClassDecl::write_class_file.  The text written is kept as    *)
(* the sequence of its pieces: the literal parts of each format string,    *)
(* the arguments, and every line break as a piece "\n" of its own.         *)
(***************************************************************************)
JField(access, jtype, name) == [access |-> access, jtype |-> jtype, name |-> name]
\* inputs: (parameter name, parameter type)
JMethod(is_static, name, inputs, output) ==
    [is_static |-> is_static, name |-> name, inputs |-> inputs, output |-> output]
JUnionVariant(name, fields) == [name |-> name, fields |-> fields]
JClass(name, package, fields, methods) ==
    [kind |-> "Class", name |-> name, package |-> package, fields |-> fields,
     methods |-> methods]
JEnum(name, package, variants, methods) ==
    [kind |-> "Enum", name |-> name, package |-> package, variants |-> variants,
     methods |-> methods]
JEnumTaggedUnion(name, package, variants, methods) ==
    [kind |-> "EnumTaggedUnion", name |-> name, package |-> package, variants |-> variants,
     methods |-> methods]

\* The same rendering with a keyword for PackagePrivate.
AccessDisplayWord(access) ==
    CASE access = "Public" -> "public"
      [] access = "Protected" -> "protected"
      [] access = "PackagePrivate" -> "package"
      [] access = "Private" -> "private"

\* impl Display for JAccessModifier
AccessDisplay(access) ==
    CASE access = "Public" -> "public"
      [] access = "Protected" -> "protected"
      [] access = "PackagePrivate" -> ""
      [] access = "Private" -> "private"

\* write!(out, ..) and writeln!(out, ..)
write(sink, pieces) == sink \o pieces
writeln(sink, pieces) == sink \o pieces \o <<"\n">>

\* The pieces written by a `for` loop: those of each iteration, in order.
RECURSIVE Flatten(_)
Flatten(lists) == IF lists = <<>> THEN <<>> ELSE Head(lists) \o Flatten(Tail(lists))
ForEach(items, Pieces(_, _)) == Flatten([i \in 1..Len(items) |-> Pieces(i, items[i])])

\* The same stub without the `native` keyword.
write_method_plain(m, sink) ==
    LET head == IF m.is_static
                THEN write(sink, <<"\tpublic static ", m.output, " ", m.name, "(">>)
                ELSE write(sink, <<"\tpublic ", m.output, " ", m.name, "(">>)
        Param(i, input) == (IF i = 1 THEN <<>> ELSE <<", ">>) \o <<input[2], " ", input[1]>>
    IN  writeln(write(head, ForEach(m.inputs, Param)), <<");">>)

\* JMethod::write_method
write_method(m, sink) ==
    LET head == IF m.is_static
                THEN write(sink, <<"\tpublic static native ", m.output, " ", m.name, "(">>)
                ELSE write(sink, <<"\tpublic native ", m.output, " ", m.name, "(">>)
        \* `for (name, param_type) in &self.inputs`, with the `first` flag
        Param(i, input) == (IF i = 1 THEN <<>> ELSE <<", ">>) \o <<input[2], " ", input[1]>>
    IN  writeln(write(head, ForEach(m.inputs, Param)), <<");">>)

\* `for method in methods { method.write_method(out)? }`
WriteMethods(methods, sink) ==
    LET Stub(i, m) == write_method(m, <<>>) IN write(sink, ForEach(methods, Stub))

\* The same constructor with the body braces on lines of their own when there is
\* no field.
WriteConstructorOpenBody(head, name, fields, indent, sink) ==
    LET Param(i, f) == <<f.jtype, " ", f.name>>
                       \o (IF i # Len(fields) THEN <<", ">> ELSE <<>>)
        Assign(i, f) == <<indent \o "\tthis.", f.name, " = ", f.name, ";", "\n">>
        params == write(write(sink, <<head, name, "(">>), ForEach(fields, Param))
    IN  writeln(write(writeln(params, <<") {">>), ForEach(fields, Assign)), <<indent \o "}">>)

\* The same constructor with the assignments in the reverse order.
WriteConstructorReversed(head, name, fields, indent, sink) ==
    LET Param(i, f) == <<f.jtype, " ", f.name>>
                       \o (IF i # Len(fields) THEN <<", ">> ELSE <<>>)
        Assign(i, f) == <<indent \o "\tthis.", fields[Len(fields) + 1 - i].name, " = ",
                          fields[Len(fields) + 1 - i].name, ";", "\n">>
        params == write(write(sink, <<head, name, "(">>), ForEach(fields, Param))
    IN  IF Len(fields) > 0
        THEN writeln(write(writeln(params, <<") {">>), ForEach(fields, Assign)),
                     <<indent \o "}">>)
        ELSE writeln(params, <<") {}">>)

\* The constructor: parameters, then either the assignments or an empty body.
\* indent is the indentation of the enclosing class body, access the modifier.
WriteConstructor(head, name, fields, indent, sink) ==
    LET Param(i, f) == <<f.jtype, " ", f.name>>
                       \o (IF i # Len(fields) THEN <<", ">> ELSE <<>>)
        Assign(i, f) == <<indent \o "\tthis.", f.name, " = ", f.name, ";", "\n">>
        params == write(write(sink, <<head, name, "(">>), ForEach(fields, Param))
    IN  IF Len(fields) > 0
        THEN writeln(write(writeln(params, <<") {">>), ForEach(fields, Assign)),
                     <<indent \o "}">>)
        ELSE writeln(params, <<") {}">>)

\* `writeln!(out, "package {};\n", package)?`
WriteHeader(package) == writeln(<<>>, <<"package ", package, ";", "\n">>)

\* JClassDecl::write_class_file, the arm JClassDecl::Class
WriteClass(decl) ==
    LET FieldLine(i, f) == <<"\t", AccessDisplay(f.access), " ", f.jtype, " ", f.name, ";", "\n">>
        o1 == write(WriteHeader(decl.package), <<"public final class ", decl.name, " {">>)
        o2 == IF Len(decl.fields) > 0 \/ Len(decl.methods) > 0 THEN writeln(o1, <<>>) ELSE o1
        o3 == write(o2, ForEach(decl.fields, FieldLine))
        o4 == IF Len(decl.fields) > 0 THEN writeln(o3, <<>>) ELSE o3
        o5 == WriteConstructor("\tprivate ", decl.name, decl.fields, "\t", o4)
        o6 == IF Len(decl.methods) > 0 THEN writeln(o5, <<>>) ELSE o5
    IN  write(WriteMethods(decl.methods, o6), <<"}">>)

\* The Enum arm with the variants written last first.
WriteEnumReversed(decl) ==
    LET n == Len(decl.variants)
        Variant(i, v) == (IF i = 1 THEN <<>> ELSE <<",", "\n">>) \o <<"\t", decl.variants[n + 1 - i]>>
        o1 == write(WriteHeader(decl.package), <<"public enum ", decl.name, " {">>)
        o2 == IF Len(decl.variants) > 0 THEN writeln(o1, <<>>) ELSE o1
        o3 == write(o2, ForEach(decl.variants, Variant))
        o4 == IF Len(decl.variants) > 0 THEN writeln(o3, <<";">>) ELSE o3
        o5 == IF Len(decl.methods) > 0 THEN writeln(o4, <<>>) ELSE o4
    IN  write(WriteMethods(decl.methods, o5), <<"}">>)

\* JClassDecl::write_class_file, the arm JClassDecl::Enum
WriteEnum(decl) ==
    LET Variant(i, v) == (IF i = 1 THEN <<>> ELSE <<",", "\n">>) \o <<"\t", v>>
        o1 == write(WriteHeader(decl.package), <<"public enum ", decl.name, " {">>)
        o2 == IF Len(decl.variants) > 0 THEN writeln(o1, <<>>) ELSE o1
        o3 == write(o2, ForEach(decl.variants, Variant))
        o4 == IF Len(decl.variants) > 0 THEN writeln(o3, <<";">>) ELSE o3
        o5 == IF Len(decl.methods) > 0 THEN writeln(o4, <<>>) ELSE o4
    IN  write(WriteMethods(decl.methods, o5), <<"}">>)

\* JClassDecl::write_class_file, the arm JClassDecl::EnumTaggedUnion
WriteEnumTaggedUnion(decl) ==
    LET FieldLine(i, f) ==
            <<"\t\t", AccessDisplay(f.access), " ", f.jtype, " ", f.name, ";", "\n">>
        Inner(i, v) ==
            LET v1 == <<"\tpublic static final class ", v.name, " extends ", decl.name, " {">>
                v2 == IF Len(v.fields) > 0 THEN writeln(v1, <<>>) ELSE v1
                v3 == write(v2, ForEach(v.fields, FieldLine))
                v4 == IF Len(v.fields) > 0 THEN writeln(v3, <<>>) ELSE v3
                v5 == WriteConstructor("\t\tpublic ", v.name, v.fields, "\t\t", v4)
            IN  writeln(v5, <<"\t}">>)
        o1 == write(WriteHeader(decl.package),
                    <<"public abstract sealed class ", decl.name, " {">>)
        o2 == IF Len(decl.variants) > 0 THEN writeln(o1, <<>>) ELSE o1
        o3 == write(o2, ForEach(decl.variants, Inner))
        o4 == IF Len(decl.methods) > 0 THEN writeln(o3, <<>>) ELSE o3
    IN  write(WriteMethods(decl.methods, o4), <<"}">>)

\* JClassDecl::write_class_file
write_class_file(decl) ==
    CASE decl.kind = "Class" -> WriteClass(decl)
      [] decl.kind = "Enum" -> WriteEnum(decl)
      [] decl.kind = "EnumTaggedUnion" -> WriteEnumTaggedUnion(decl)

\* The descriptors given to the emitter.
FieldPool == {JField("Public", "int", "x"), JField("Private", "java.lang.String", "name"),
              JField("PackagePrivate", "long", "id"), JField("Protected", "boolean", "ok")}
MethodPool == {JMethod(TRUE, "origin", <<>>, "geo.Point"),
               JMethod(FALSE, "area", <<(<<"scale", "double">>)>>, "double"),
               JMethod(TRUE, "max", <<(<<"a", "int">>), (<<"b", "int">>)>>, "int")}
VariantNamePool == {"RED", "GREEN", "BLUE"}
UnionVariantPool ==
    {JUnionVariant("Dot", <<>>),
     JUnionVariant("Label", <<JField("Public", "java.lang.String", "text")>>),
     JUnionVariant("Side", <<JField("Public", "int", "a"), JField("Private", "int", "b")>>)}
\* the class of the exact-output scenario
PointDecl ==
    JClass("Point", "geo", <<JField("Public", "int", "x"), JField("Public", "int", "y")>>, <<>>)
ClassDecls ==
    {PointDecl} \cup
    {JClass("Point", "geo", fs, ms) :
        fs \in SeqsUpTo(FieldPool, MaxFields), ms \in SeqsUpTo(MethodPool, MaxMethods)}
    \cup {JEnum("Color", "geo", vs, ms) :
        vs \in SeqsUpTo(VariantNamePool, MaxVariants), ms \in SeqsUpTo(MethodPool, MaxMethods)}
    \cup {JEnumTaggedUnion("Shape", "geo", vs, ms) :
        vs \in SeqsUpTo(UnionVariantPool, MaxVariants),
        ms \in SeqsUpTo(MethodPool, MaxMethods)}

InitEmit ==
    /\ NAME = Unset
    /\ SIGNATURE = Unset
    /\ queries = <<>>
    /\ IdleCall
    /\ given = [step |-> "idle"]
    /\ once = [step |-> "idle"]
    /\ derived = [step |-> "idle"]
    /\ checked = [step |-> "idle"]
    /\ trip = [step |-> "idle"]
    /\ asked = [step |-> "idle"]
    /\ export = [step |-> "idle"]
    /\ \E d \in ClassDecls : emit = [step |-> "decl", decl |-> d]

\* class.write_class_file(&mut out)
WriteClassFile ==
    /\ emit.step = "decl"
    /\ emit' = [step |-> "written", decl |-> emit.decl, text |-> write_class_file(emit.decl)]

\* A second emission that goes on where the first one stopped: a line break first
\* when text has been written before.
WriteClassFileAppending ==
    /\ emit.step = "written"
    /\ emit' = [step |-> "twice", decl |-> emit.decl, text |-> emit.text,
                again |-> IF emit.text # <<>> THEN <<"\n">> \o write_class_file(emit.decl)
                          ELSE write_class_file(emit.decl)]

\* class.write_class_file(&mut out) once more, for the same declaration
WriteClassFileAgain ==
    /\ emit.step = "written"
    /\ emit' = [step |-> "twice", decl |-> emit.decl, text |-> emit.text,
                again |-> write_class_file(emit.decl)]

NextEmit ==
    \/ WriteClassFile /\ UNCHANGED <<cacheVars, callVars, trip, asked, export,
                    given, once, derived, checked>>
    \/ WriteClassFileAgain /\ UNCHANGED <<cacheVars, callVars, trip, asked, export,
                    given, once, derived, checked>>

SpecEmit == InitEmit /\ [][NextEmit]_vars

\* The text as one string, and as its lines (a last line without a line break
\* included, each line the sequence of its pieces).
TextOf(pieces) == Join(pieces)
LinesOf(pieces) ==
    LET n == Len(pieces)
        breaks == {i \in 1..n : pieces[i] = "\n"}
        starts == {1} \cup {i + 1 : i \in breaks}
        StartOf(k) == CHOOSE b \in starts : Cardinality({t \in starts : t < b}) = k - 1
        EndOf(b) == (CHOOSE e \in breaks \cup {n + 1} :
                        e >= b /\ \A t \in breaks : t >= b => t >= e) - 1
    IN  [k \in 1..Cardinality(starts) |-> Join(SubSeq(pieces, StartOf(k), EndOf(StartOf(k))))]

(***************************************************************************)
(* C15: a Class with at least one field is written as `package P;`, a      *)
(* blank line, `public final class N {`, one tab-indented line             *)
(* `<access> <type> <name>;` per field in declared order, a blank line,    *)
(* one `private N(<type1> <f1>, ...)` constructor over all fields in       *)
(* declared order assigning `this.f = f` per field in that order, then,    *)
(* only if there are methods, a blank line and one stub line per method,   *)
(* then `}` with no line break after it; the Point scenario gives exactly  *)
(* the text of the specification.                                          *)
(***************************************************************************)
C15_Access(a) ==
    CASE a = "Public" -> "public" [] a = "Protected" -> "protected"
      [] a = "PackagePrivate" -> "" [] a = "Private" -> "private"
RECURSIVE C15_Params(_)
C15_Params(fields) ==
    IF fields = <<>> THEN ""
    ELSE Head(fields).jtype \o " " \o Head(fields).name
         \o (IF Tail(fields) = <<>> THEN "" ELSE ", " \o C15_Params(Tail(fields)))
C15_Before(d) ==
    <<"package " \o d.package \o ";", "", "public final class " \o d.name \o " {">>
    \o [i \in DOMAIN d.fields |->
           "\t" \o C15_Access(d.fields[i].access) \o " " \o d.fields[i].jtype \o " "
                \o d.fields[i].name \o ";"]
    \o <<"", "\tprivate " \o d.name \o "(" \o C15_Params(d.fields) \o ") {">>
    \o [i \in DOMAIN d.fields |->
           "\t\tthis." \o d.fields[i].name \o " = " \o d.fields[i].name \o ";"]
    \o <<"\t}">>
C15_PointText ==
    "package geo;\n\npublic final class Point {\n\tpublic int x;\n\tpublic int y;\n\n\tprivate Point(int x, int y) {\n\t\tthis.x = x;\n\t\tthis.y = y;\n\t}\n}"

C15_ClassWithFields ==
    (emit.step = "written" /\ emit.decl.kind = "Class" /\ Len(emit.decl.fields) > 0) =>
        LET d == emit.decl
            lines == LinesOf(emit.text)
            before == C15_Before(d)
            m == Len(d.methods)
        IN  /\ Len(lines) = Len(before) + (IF m > 0 THEN 1 + m ELSE 0) + 1
            /\ SubSeq(lines, 1, Len(before)) = before
            /\ m > 0 => lines[Len(before) + 1] = ""
            /\ \A i \in 1..m : lines[Len(before) + 1 + i] # ""
            /\ lines[Len(lines)] = "}"
            /\ d = PointDecl => TextOf(emit.text) = C15_PointText

C15_Witness ==
    /\ emit.step = "written" /\ emit.decl = PointDecl
    /\ TextOf(emit.text) = C15_PointText

(***************************************************************************)
(* C16: a Class with no fields has no blank line before its constructor    *)
(* and the constructor is `private N() {}`; a Class with no methods has    *)
(* nothing between the end of the constructor and the closing brace; a     *)
(* blank line precedes the constructor iff there is a field, and a blank   *)
(* line follows it iff there is a method.                                  *)
(***************************************************************************)
C16_CtorAt(text) == CHOOSE k \in DOMAIN text : text[k] = "\tprivate "
\* the piece after the line break that ends the constructor
C16_AfterCtor(text, nfields) ==
    LET k == C16_CtorAt(text)
        last == CHOOSE j \in k..Len(text) :
                    /\ text[j] = (IF nfields = 0 THEN ") {}" ELSE "\t}")
                    /\ \A i \in k..(j - 1) : text[i] # text[j]
    IN  last + 2
C16_ClassEdgeCases ==
    (emit.step = "written" /\ emit.decl.kind = "Class") =>
        LET d == emit.decl
            text == emit.text
            k == C16_CtorAt(text)
            after == C16_AfterCtor(text, Len(d.fields))
        IN  /\ Len(SelectSeq(text, LAMBDA x : x = "\tprivate ")) = 1
            /\ (text[k - 1] = "\n" /\ text[k - 2] = "\n") <=> Len(d.fields) > 0
            /\ Len(d.fields) = 0 => SubSeq(text, k, k + 3) = <<"\tprivate ", d.name, "(", ") {}">>
            /\ text[after - 1] = "\n"
            /\ text[after] = "\n" <=> Len(d.methods) > 0
            /\ Len(d.methods) = 0 => SubSeq(text, after, Len(text)) = <<"}">>

C16_Witness ==
    /\ emit.step = "written" /\ emit.decl.kind = "Class"
    /\ Len(emit.decl.fields) = 0 /\ Len(emit.decl.methods) = 0
    /\ TextOf(emit.text) = "package geo;\n\npublic final class Point {\tprivate Point() {}\n}"

(***************************************************************************)
(* C17: an Enum is written with its variant names in declaration order,    *)
(* comma-separated one per line, and the variant list is terminated with   *)
(* `;` exactly when the enum has at least one variant or at least one      *)
(* method; with variants [RED, GREEN] and no methods the body is           *)
(* `RED,\n\tGREEN;` followed by the closing brace.                         *)
(***************************************************************************)
C17_IsTerminator(x) == x = ";"
C17_IsBreak(x) == x = "\n"
C17_VariantLines(vs) ==
    [i \in DOMAIN vs |-> "\t" \o vs[i] \o (IF i = Len(vs) THEN ";" ELSE ",")]
C17_EnumTerminator ==
    (emit.step = "written" /\ emit.decl.kind = "Enum") =>
        LET d == emit.decl
            lines == LinesOf(emit.text)
            \* the pieces after the `package P;` line and the blank line
            body == SubSeq(emit.text, 6, Len(emit.text))
        IN  /\ Len(SelectSeq(body, C17_IsTerminator))
                  = (IF Len(d.variants) > 0 \/ Len(d.methods) > 0 THEN 1 ELSE 0)
            /\ Len(d.variants) > 0 =>
                  SubSeq(lines, 4, 3 + Len(d.variants)) = C17_VariantLines(d.variants)
            /\ (d.variants = <<"RED", "GREEN">> /\ d.methods = <<>>) =>
                  TextOf(emit.text) = "package geo;\n\npublic enum Color {\n\tRED,\n\tGREEN;\n}"

(***************************************************************************)
(* C18: a TaggedUnion is written as `public abstract sealed class N {`,    *)
(* then for each variant in declaration order a nested                     *)
(* `public static final class V extends N {` with that variant's field     *)
(* lines, a public constructor `public V(...)` over the variant's fields   *)
(* in declared order assigning `this.f = f` in that order, and a closing   *)
(* brace; the method stubs of the outer class follow all nested classes,   *)
(* and the outer class has no field and no constructor of its own.         *)
(***************************************************************************)
C18_Variant(n, v) ==
    <<"\tpublic static final class ", v.name, " extends ", n, " {">>
    \o Flatten([i \in DOMAIN v.fields |->
                  <<"\t\t", C15_Access(v.fields[i].access), " ", v.fields[i].jtype, " ",
                    v.fields[i].name, ";">>])
    \o <<"\t\tpublic ", v.name, "(">>
    \o Flatten([i \in DOMAIN v.fields |->
                  <<v.fields[i].jtype, " ", v.fields[i].name>>
                  \o (IF i < Len(v.fields) THEN <<", ">> ELSE <<>>)])
    \o (IF v.fields = <<>> THEN <<") {}">>
        ELSE <<") {">>
             \o Flatten([i \in DOMAIN v.fields |->
                           <<"\t\t\tthis.", v.fields[i].name, " = ", v.fields[i].name, ";">>])
             \o <<"\t\t}">>)
    \o <<"\t}">>
C18_Outer(d) ==
    <<"package ", d.package, ";", "public abstract sealed class ", d.name, " {">>
    \o Flatten([i \in DOMAIN d.variants |-> C18_Variant(d.name, d.variants[i])])
C18_TaggedUnion ==
    (emit.step = "written" /\ emit.decl.kind = "EnumTaggedUnion") =>
        LET d == emit.decl
            words == SelectSeq(emit.text, LAMBDA x : ~C17_IsBreak(x))
            outer == C18_Outer(d)
            stubs == SubSeq(words, Len(outer) + 1, Len(words) - 1)
        IN  /\ Len(words) > Len(outer)
            /\ SubSeq(words, 1, Len(outer)) = outer
            /\ words[Len(words)] = "}"
            \* what follows the nested classes is the stubs and nothing else
            /\ Len(SelectSeq(stubs, LAMBDA x : x = ");")) = Len(d.methods)
            /\ \A i \in DOMAIN stubs :
                  stubs[i] \notin {"\tprivate ", "\t\tpublic ", "\t", "\t\t",
                                   "\tpublic static final class "}
            /\ d.methods = <<>> => stubs = <<>>

C18_Witness ==
    /\ emit.step = "written" /\ emit.decl.kind = "EnumTaggedUnion"
    /\ Len(emit.decl.variants) = 2 /\ emit.decl.variants[1].name = "Side"
    /\ emit.decl.variants[2].name = "Label" /\ Len(emit.decl.methods) = 1
    /\ \E i \in DOMAIN LinesOf(emit.text) :
          /\ LinesOf(emit.text)[i] = "\t\tpublic Side(int a, int b) {"
          /\ LinesOf(emit.text)[i + 1] = "\t\t\tthis.a = a;"
          /\ LinesOf(emit.text)[i + 2] = "\t\t\tthis.b = b;"

(***************************************************************************)
(* C19, as stated: every method is written as exactly one stub             *)
(* `public [static] <output> <name>(<type1> <p1>, ...);`, always public,   *)
(* `static` present iff isStatic, the parameters in declared order as      *)
(* `<type> <name>` separated by ", " with no trailing separator, and `()`  *)
(* for a method with no inputs.                                            *)
(***************************************************************************)
RECURSIVE C19_Params(_)
C19_Params(inputs) ==
    IF inputs = <<>> THEN ""
    ELSE Head(inputs)[2] \o " " \o Head(inputs)[1]
         \o (IF Tail(inputs) = <<>> THEN "" ELSE ", " \o C19_Params(Tail(inputs)))
C19_Stub(m, keywords) ==
    "\tpublic " \o (IF m.is_static THEN "static " ELSE "") \o keywords
        \o m.output \o " " \o m.name \o "(" \o C19_Params(m.inputs) \o ")" \o ";"
\* the lines of the method section: the last Len(methods) lines before the `}`
C19_StubLines(keywords) ==
    LET lines == LinesOf(emit.text)
        m == Len(emit.decl.methods)
    IN  /\ Len(lines) > m + 1
        /\ SubSeq(lines, Len(lines) - m, Len(lines) - 1)
             = [i \in 1..m |-> C19_Stub(emit.decl.methods[i], keywords)]
        /\ Len(SelectSeq(emit.text, LAMBDA x : x = ");")) = m
C19_MethodStubAsStated == emit.step = "written" => C19_StubLines("")

(***************************************************************************)
(* C19, amended: every method is written as exactly one stub               *)
(* `public [static] native <output> <name>(<type1> <p1>, ...);`, always    *)
(* public and native, `static` present iff isStatic, the parameters in     *)
(* declared order as `<type> <name>` separated by ", " with no trailing    *)
(* separator, and `()` for a method with no inputs.                        *)
(***************************************************************************)
C19_MethodStub == emit.step = "written" => C19_StubLines("native ")

C19_Witness ==
    /\ emit.step = "written" /\ emit.decl.kind = "Class" /\ Len(emit.decl.methods) = 2
    /\ LinesOf(emit.text)[Len(LinesOf(emit.text)) - 2] = "\tpublic static native geo.Point origin();"
    /\ LinesOf(emit.text)[Len(LinesOf(emit.text)) - 1] = "\tpublic native double area(double scale);"

(***************************************************************************)
(* C20: into_jni of a struct converts the fields in declared order and     *)
(* then invokes the constructor once, with the signature "(" + the fields' *)
(* signatures in declared order + ")V" and the converted values in that    *)
(* order, and not at all if a field conversion fails; from_jni of a struct *)
(* reads each declared field by its name and signature in declared order   *)
(* and returns the first failing field's outcome without a value.          *)
(***************************************************************************)
C20_IsRead(call) == call.op = "get_field"
C20_IsNew(call) == call.op = "new_object"
\* the signature of a field's type: "[" + signature(T) for an array of T
C20_FieldSignature(t) ==
    IF t.k = "array" THEN "[" \o JVM_PARAM_SIGNATURE(t.elem) ELSE JVM_PARAM_SIGNATURE(t)
RECURSIVE C20_Signatures(_)
C20_Signatures(fields) ==
    IF fields = <<>> THEN ""
    ELSE C20_FieldSignature(Head(fields).ty) \o C20_Signatures(Tail(fields))
\* the calls of one field's conversion when nothing fails
C20_OpsOf(cs) == [k \in DOMAIN cs |-> cs[k].op]
C20_Converted(t, nv) == into_jni(t, nv, NewCtx(NoFail))
C20_NativeToForeign(t) ==
    LET news == SelectSeq(calls, C20_IsNew)
        signature == "(" \o C20_Signatures(t.fields) \o ")V"
        conversions == Flatten([i \in DOMAIN t.fields |->
                                   C20_OpsOf(C20_Converted(t.fields[i].ty, out.v[i]).c.calls)])
    IN  /\ Len(news) <= 1
        /\ \A j \in DOMAIN calls :
              calls[j].op = "new_object" =>
                 /\ j = Len(calls)
                 /\ \A k \in 1..(j - 1) : calls[k].ok
                 /\ C20_OpsOf(SubSeq(calls, 1, j - 1)) = conversions
                 /\ calls[j].sig = signature
        /\ (\E k \in DOMAIN calls : ~calls[k].ok /\ calls[k].op # "new_object") => news = <<>>
        /\ IsOk(res) =>
              /\ Len(news) = 1
              /\ res.val.ctor = signature
              /\ res.val.args = [i \in DOMAIN t.fields |->
                                    C20_Converted(t.fields[i].ty, out.v[i]).r.val]
C20_ForeignToNative(t, obj) ==
    LET reads == SelectSeq(calls, C20_IsRead)
        Field(f) == from_jni(f.ty, obj.fields[f.name], NewCtx(NoFail)).r
    IN  /\ \A j \in DOMAIN reads :
              /\ j <= Len(t.fields)
              /\ reads[j].on = obj
              /\ reads[j].arg = t.fields[j].name
              /\ reads[j].sig = C20_FieldSignature(t.fields[j].ty)
        /\ idx >= 1 =>
              /\ Len(reads) = Len(t.fields)
              /\ natives[1] = NStruct(t.name, [i \in DOMAIN t.fields |-> Field(t.fields[i]).val])
        /\ InputFailed(1) =>
              /\ ~IsOk(res) /\ natives = <<>>
              /\ \A k \in DOMAIN calls : ~calls[k].ok => k = Len(calls)
              /\ IF \E k \in DOMAIN calls : ~calls[k].ok
                 THEN res = Err(map_jni_error(envErr))
                 ELSE res = Field(t.fields[Len(reads)])
C20_AggregateMarshalling ==
    /\ (method.name # "none" /\ method.output.k = "struct" /\ AllInputs(method) = <<>>
          /\ pc \in {"match", "returned", "panicked"})
        => C20_NativeToForeign(method.output)
    /\ (method.name # "none" /\ AllInputs(method) # <<>> /\ AllInputs(method)[1].k = "struct"
          /\ (idx >= 1 \/ InputFailed(1)))
        => C20_ForeignToNative(AllInputs(method)[1], jargs[1])

(***************************************************************************)
(* C21: from_jni of an object array of length len visits the indices       *)
(* 0..len-1 in increasing order and gives a slice of length len whose i-th *)
(* element is the conversion of slot i; into_jni allocates an array of the *)
(* input's length typed by the element's signature and sets slot i from    *)
(* the i-th element's into_jni result; in both directions the first        *)
(* failing element ends the conversion with that element's outcome.        *)
(***************************************************************************)
C21_IsGet(call) == call.op = "get_object_array_element"
C21_IsAlloc(call) == call.op = "new_object_array"
C21_IsSet(call) == call.op = "set_object_array_element"
C21_ForeignToNative(t, arr) ==
    LET gets == SelectSeq(calls, C21_IsGet)
        Slot(i) == from_jni(t.elem, arr.elems[i], NewCtx(NoFail)).r
    IN  /\ \A j \in DOMAIN gets :
              j <= Len(arr.elems) /\ gets[j].on = arr /\ gets[j].arg = j - 1
        /\ idx >= 1 =>
              /\ Len(gets) = Len(arr.elems)
              /\ natives[1] = NSeq([i \in DOMAIN arr.elems |-> Slot(i).val])
        /\ InputFailed(1) =>
              /\ ~IsOk(res) /\ natives = <<>>
              /\ \A k \in DOMAIN calls : ~calls[k].ok => k = Len(calls)
              /\ IF \E k \in DOMAIN calls : ~calls[k].ok
                 THEN res = Err(map_jni_error(envErr))
                 ELSE res = Slot(Len(gets))
C21_NativeToForeign(t) ==
    LET first == CHOOSE j \in DOMAIN calls :
                     C21_IsAlloc(calls[j]) /\ \A k \in 1..(j - 1) : ~C21_IsAlloc(calls[k])
        made == SubSeq(calls, first, Len(calls))
        sets == SelectSeq(made, C21_IsSet)
        signature == C20_FieldSignature(t.elem)
    IN  /\ \E j \in DOMAIN calls : C21_IsAlloc(calls[j])
        /\ calls[first].arg = Len(out.v)
        /\ calls[first].sig = signature
        /\ t.elem.k = "string" =>
              /\ Len(sets) <= Len(out.v)
              /\ \A j \in DOMAIN sets : sets[j].arg = j - 1
        /\ IsOk(res) =>
              /\ res.val.class = "[" \o signature
              /\ res.val.elems = [i \in DOMAIN out.v |-> C20_Converted(t.elem, out.v[i]).r.val]
        /\ ~IsOk(res) =>
              /\ \E k \in DOMAIN made : ~made[k].ok
              /\ \A k \in DOMAIN made : ~made[k].ok => k = Len(made)
              /\ res = Err(map_jni_error(envErr))
C21_ElementWise ==
    /\ (method.name # "none" /\ AllInputs(method) # <<>>
          /\ AllInputs(method)[1].k = "array" /\ AllInputs(method)[1].elem.k # "prim"
          /\ (idx >= 1 \/ InputFailed(1)))
        => C21_ForeignToNative(AllInputs(method)[1], jargs[1])
    /\ (method.name # "none" /\ method.output.k = "array" /\ method.output.elem.k # "prim"
          /\ idx = Len(AllInputs(method)) /\ pc \in {"match", "returned", "panicked"})
        => C21_NativeToForeign(method.output)

(***************************************************************************)
(* C22: into_jni of a tagged union constructs exactly one object, of the   *)
(* inner class Outer$Variant of the value's own variant, passing that      *)
(* variant's fields converted in declared order with the constructor       *)
(* signature built from those fields; a payload-less variant is            *)
(* constructed with the no-argument constructor; no other variant's class  *)
(* is constructed.                                                         *)
(***************************************************************************)
C22_VariantOf(t, name) ==
    CHOOSE i \in DOMAIN t.variants : t.variants[i].name = name
C22_UnionIntoJni ==
    (method.name # "none" /\ method.output.k = "union"
       /\ idx = Len(AllInputs(method)) /\ pc \in {"match", "returned", "panicked"}) =>
        LET t == method.output
            v == t.variants[C22_VariantOf(t, out.variant)]
            news == SelectSeq(calls, C20_IsNew)
            inner == SlashPath(t.package) \o "/" \o t.name \o "$" \o out.variant
            signature == "(" \o C20_Signatures(v.fields) \o ")V"
        IN  /\ Len(news) <= 1
            /\ \A j \in DOMAIN news : news[j].arg = inner /\ news[j].sig = signature
            /\ v.fields = <<>> => signature = "()V"
            /\ IsOk(res) =>
                  /\ Len(news) = 1
                  /\ res.val.class = inner
                  /\ res.val.ctor = signature
                  /\ res.val.args = [i \in DOMAIN v.fields |->
                                        C20_Converted(v.fields[i].ty, out.v[i]).r.val]

(***************************************************************************)
(* SpecJValue: one JValueOwned handed to <T as JavaType>::from_jvalue, for *)
(* every type T and every variant of JValueOwned.  The message of a        *)
(* refused array value names the type with QUALIFIED_NAME(), which for     *)
(* Box<[T]> is the memoized NAME.                                          *)
(***************************************************************************)
\* impl<T: JavaType> JavaType for Box<[T]>, from_jvalue
ArrayFromJvalue(t, jv, cell) ==
    IF jv.kind = "Object" THEN [r |-> Ok(jv), cell |-> cell]
    ELSE LET named == get_or_init(cell, ArrayNameInit(t.elem))
         IN  [r |-> Err(Some("java/lang/ClassCastException",
                             type_name(jv) \o " cannot be cast to " \o named.val)),
              cell |-> named]

\* The types whose from_jvalue is asked.
CastTypes ==
    {Prim(n) : n \in {"bool", "i8", "u8", "i16", "u16", "i32", "u32", "i64", "u64",
                      "f32", "f64", "JavaChar"}}
    \cup {StringT, ArrayT(StringT), ArrayT(Prim("i32")), PointT, ShapeT, ColorT}

\* One value of every JValueOwned variant, and some more objects.
CastValues ==
    {JPrim("Bool", 1), JPrim("Byte", -56), JPrim("Char", 65), JPrim("Short", -3),
     JPrim("Int", 7), JPrim("Long", 9), JPrim("Float", "2.5"), JPrim("Double", "1.5"),
     [kind |-> "Void"], JNull, JStringObj("hi"), JArrayObj("[I", <<7>>),
     JEnumObj("geo.Color", 1)}

InitJValue ==
    /\ NAME = Unset
    /\ SIGNATURE = Unset
    /\ queries = <<>>
    /\ IdleCall
    /\ trip = [step |-> "idle"]
    /\ asked = [step |-> "idle"]
    /\ export = [step |-> "idle"]
    /\ emit = [step |-> "idle"]
    /\ once = [step |-> "idle"]
    /\ derived = [step |-> "idle"]
    /\ checked = [step |-> "idle"]
    /\ \E t \in CastTypes, jv \in CastValues : given = [step |-> "value", t |-> t, jv |-> jv]

\* <T as JavaType>::from_jvalue(jvalue, env)
FromJvalue ==
    /\ given.step = "value"
    /\ IF given.t.k = "array"
       THEN LET a == ArrayFromJvalue(given.t, given.jv, NAME)
            IN  /\ given' = [step |-> "cast", t |-> given.t, jv |-> given.jv, result |-> a.r]
                /\ NAME' = a.cell
       ELSE /\ given' = [step |-> "cast", t |-> given.t, jv |-> given.jv,
                         result |-> from_jvalue(given.t, given.jv)]
            /\ NAME' = NAME

NextJValue ==
    \/ FromJvalue /\ UNCHANGED <<SIGNATURE, queries, callVars, trip, asked, export, emit,
                                 once, derived, checked>>

SpecJValue == InitJValue /\ [][NextJValue]_vars

(***************************************************************************)
(* C23: from_jvalue of a value whose kind is not the one the type expects  *)
(* (an int for bool, a primitive for an object, String or array) gives     *)
(* Err(Some(ClassCastException, msg)); a value of the expected kind gives  *)
(* Ok of the same value.                                                   *)
(***************************************************************************)
C23_Expected(t) ==
    IF t.k # "prim" THEN "Object"
    ELSE CASE t.name = "bool" -> "Bool"
           [] t.name \in {"i8", "u8"} -> "Byte"
           [] t.name \in {"i16", "u16"} -> "Short"
           [] t.name \in {"i32", "u32"} -> "Int"
           [] t.name \in {"i64", "u64"} -> "Long"
           [] t.name = "f32" -> "Float"
           [] t.name = "f64" -> "Double"
           [] t.name = "JavaChar" -> "Char"
C23_KindMismatch ==
    given.step = "cast" =>
        IF given.jv.kind = C23_Expected(given.t)
        THEN given.result = Ok(given.jv)
        ELSE /\ given.result.tag = "Err"
             /\ given.result.exc.some
             /\ given.result.exc.class = "java/lang/ClassCastException"

C23_Witness ==
    /\ given.step = "cast" /\ given.t = Prim("bool") /\ given.jv = JPrim("Int", 7)
    /\ given.result = Err(Some("java/lang/ClassCastException", "int cannot be cast to boolean"))

(***************************************************************************)
(* SpecOnce: several threads query QUALIFIED_NAME() or                     *)
(* JVM_PARAM_SIGNATURE() of array types at the same time.                  *)
(* OnceLock::get_or_init returns the stored value if there is one; else    *)
(* one caller runs its initialiser while the others block until the value  *)
(* is stored.  NAME and SIGNATURE are the two cells, each one item for     *)
(* every element type (see SpecCache).                                     *)
(***************************************************************************)
Threads == 1..MaxThreads
OnceElems == {Prim("u8"), StringT, PointT}

\* the cell a query goes to, and the value its initialiser computes
CellOf(q) == IF q.what = "name" THEN NAME ELSE SIGNATURE
InitialiserOf(q) ==
    IF q.what = "name" THEN ArrayNameInit(q.elem) ELSE ArraySignatureInit(q.elem)

InitOnce ==
    /\ NAME = Unset
    /\ SIGNATURE = Unset
    /\ queries = <<>>
    /\ IdleCall
    /\ trip = [step |-> "idle"]
    /\ asked = [step |-> "idle"]
    /\ export = [step |-> "idle"]
    /\ emit = [step |-> "idle"]
    /\ given = [step |-> "idle"]
    /\ derived = [step |-> "idle"]
    /\ checked = [step |-> "idle"]
    /\ \E th \in [Threads -> [elem : OnceElems, what : {"name", "signature"}]] :
          once = [step |-> "run",
                  th |-> [i \in Threads |->
                            [pc |-> "start", elem |-> th[i].elem, what |-> th[i].what,
                             seen |-> <<>>]],
                  running |-> [name |-> 0, signature |-> 0],
                  writes |-> <<>>]

\* get_or_init, entered: the value is there, or this thread becomes the one that
\* initialises, or another thread is initialising and this one blocks.
OnceEnter(i) ==
    LET q == once.th[i]
    IN  /\ once.step = "run" /\ q.pc \in {"start", "again"}
        /\ IF CellOf(q).init
           THEN once' = [once EXCEPT !.th[i].pc = IF q.pc = "start" THEN "got" ELSE "done",
                                     !.th[i].seen = Append(@, CellOf(q).val)]
           ELSE IF once.running[q.what] = 0
           THEN once' = [once EXCEPT !.th[i].pc = "init", !.running[q.what] = i]
           ELSE once' = [once EXCEPT !.th[i].pc = "blocked"]
        /\ UNCHANGED <<NAME, SIGNATURE>>

\* the initialiser `|| format!(..).leak()` has run: its result is stored
OnceStore(i) ==
    LET q == once.th[i]
    IN  /\ once.step = "run" /\ q.pc = "init"
        /\ NAME' = IF q.what = "name" THEN get_or_init(NAME, InitialiserOf(q)) ELSE NAME
        /\ SIGNATURE' = IF q.what = "signature"
                        THEN get_or_init(SIGNATURE, InitialiserOf(q)) ELSE SIGNATURE
        /\ once' = [once EXCEPT !.th[i].pc = "got",
                                !.th[i].seen = Append(@, InitialiserOf(q)),
                                !.running[q.what] = 0,
                                !.writes = Append(@, [elem |-> q.elem, what |-> q.what,
                                                      val |-> InitialiserOf(q)])]

\* a blocked thread is released once the value is stored, and reads it
OnceWake(i) ==
    LET q == once.th[i]
    IN  /\ once.step = "run" /\ q.pc = "blocked" /\ CellOf(q).init
        /\ once' = [once EXCEPT !.th[i].pc = "got", !.th[i].seen = Append(@, CellOf(q).val)]
        /\ UNCHANGED <<NAME, SIGNATURE>>

\* the same thread queries the same type once more, later
OnceAgain(i) ==
    /\ once.step = "run" /\ once.th[i].pc = "got"
    /\ once' = [once EXCEPT !.th[i].pc = "again"]
    /\ UNCHANGED <<NAME, SIGNATURE>>

NextOnce ==
    \/ \E i \in Threads : OnceEnter(i) /\ UNCHANGED <<queries, callVars, trip, asked, export,
                                                       emit, given, derived, checked>>
    \/ \E i \in Threads : OnceStore(i) /\ UNCHANGED <<queries, callVars, trip, asked, export,
                                                       emit, given, derived, checked>>
    \/ \E i \in Threads : OnceWake(i) /\ UNCHANGED <<queries, callVars, trip, asked, export,
                                                      emit, given, derived, checked>>
    \/ \E i \in Threads : OnceAgain(i) /\ UNCHANGED <<queries, callVars, trip, asked, export,
                                                       emit, given, derived, checked>>

SpecOnce == InitOnce /\ [][NextOnce]_vars

(***************************************************************************)
(* C24: the memoized name and signature of an array type are written       *)
(* exactly once per distinct type: under every interleaving of concurrent  *)
(* first queries the initialiser's result is stored once, no thread        *)
(* observes a partial or different value, and every later query for the    *)
(* type returns that same value.                                           *)
(***************************************************************************)
C24_WritesOf(elem, what) ==
    SelectSeq(once.writes, LAMBDA w : w.elem = elem /\ w.what = what)
C24_WrittenOncePerType ==
    once.step = "run" =>
        \A i \in Threads :
            LET q == once.th[i]
                written == C24_WritesOf(q.elem, q.what)
            IN  /\ Len(written) <= 1
                /\ q.seen # <<>> =>
                      /\ Len(written) = 1
                      /\ \A k \in DOMAIN q.seen : q.seen[k] = written[1].val

ItemVariant(n, kind, fs) == [name |-> n, kind |-> kind, fields |-> fs]

\* The field lists of the variants of the items derived here.
ItemFields(kind, n) ==
    IF kind = "Tuple" THEN [i \in 1..n |-> FieldD("field_" \o FormatNat(i - 1), Prim("i32"))]
    ELSE [i \in 1..n |-> FieldD(<<"a", "b", "c">>[i], Prim("i32"))]

ItemVariantShapes ==
    {<<"Unit", 0>>} \cup ({"Named", "Tuple"} \X (0..MaxFields))

\* The enum items: up to MaxVariants variants; the i-th is named after its position.
ItemVariantNames == <<"North", "East", "South", "West">>
EnumItems ==
    {[i \in DOMAIN shapes |->
        ItemVariant(ItemVariantNames[i], shapes[i][1], ItemFields(shapes[i][1], shapes[i][2]))] :
     shapes \in SeqsUpTo(ItemVariantShapes, MaxVariants)}
    \cup {[i \in 1..k |-> ItemVariant(ItemVariantNames[i], "Unit", <<>>)] :
             k \in 0..(MaxVariants + 1)}

\* The choice that looks at the fields a variant carries instead of at how it is written.
is_tagged_union_by_fields(variants) ==
    \E i \in DOMAIN variants : variants[i].fields # <<>>

\* let is_tagged_union = item_enum.variants.iter().any(|variant| variant.fields != Fields::Unit);
is_tagged_union(variants) ==
    \E i \in DOMAIN variants : variants[i].kind # "Unit"

\* quote_fields: the JField of every field (the fields of a variant have inherited
\* visibility, which is rendered Private).
field_decls(fields) ==
    [i \in DOMAIN fields |-> JField("Private", QUALIFIED_NAME(fields[i].ty), fields[i].name)]

\* impl_enum_gen: fn declaration() of the derived type
EnumDeclaration(pkg, n, variants) ==
    IF is_tagged_union(variants)
    THEN JEnumTaggedUnion(n, pkg,
             [i \in DOMAIN variants |->
                 JUnionVariant(variants[i].name, field_decls(variants[i].fields))], <<>>)
    ELSE JEnum(n, pkg, [i \in DOMAIN variants |-> variants[i].name], <<>>)

\* impl_enum_gen: the arms of the generated into_jni, one per variant
EnumIntoJniArms(pkg, n, variants) ==
    IF is_tagged_union(variants)
    THEN [i \in DOMAIN variants |->
             [variant |-> variants[i].name, op |-> "new_object",
              on |-> SlashPath(pkg) \o "/" \o n \o "$" \o variants[i].name]]
    ELSE [i \in DOMAIN variants |->
             [variant |-> variants[i].name, op |-> "get_static_field",
              on |-> SlashPath(pkg) \o "/" \o n]]

\* impl_enum_gen: the generated from_jni: the is_instance_of tests in order, or the
\* match on the ordinal
EnumFromJniArms(pkg, n, variants) ==
    IF is_tagged_union(variants)
    THEN [i \in DOMAIN variants |->
             [variant |-> variants[i].name, op |-> "is_instance_of",
              on |-> SlashPath(pkg) \o "/" \o n \o "$" \o variants[i].name]]
    ELSE [i \in DOMAIN variants |->
             [variant |-> variants[i].name, op |-> "ordinal", on |-> i - 1]]

InitDerive ==
    /\ NAME = Unset
    /\ SIGNATURE = Unset
    /\ queries = <<>>
    /\ IdleCall
    /\ trip = [step |-> "idle"]
    /\ asked = [step |-> "idle"]
    /\ export = [step |-> "idle"]
    /\ emit = [step |-> "idle"]
    /\ given = [step |-> "idle"]
    /\ once = [step |-> "idle"]
    /\ checked = [step |-> "idle"]
    /\ \E n \in {"Compass", "Dial"}, vs \in EnumItems :
          derived = [step |-> "item", name |-> n, variants |-> vs]

\* #[derive(JavaType)] #[jmodule(package = "geo")] enum Compass { .. }
DeriveEnum ==
    /\ derived.step = "item"
    /\ derived' = [step |-> "derived", name |-> derived.name, variants |-> derived.variants,
                   decl |-> EnumDeclaration("geo", derived.name, derived.variants),
                   into |-> EnumIntoJniArms("geo", derived.name, derived.variants),
                   from |-> EnumFromJniArms("geo", derived.name, derived.variants)]

\* The constants of the enum class compiled from the emitted text, in the order of
\* their declaration: the names written after a tab.
JvmEnumConstants(text) ==
    LET at == {p \in 2..Len(text) : text[p - 1] = "\t"}
        Nth(k) == CHOOSE p \in at : Cardinality({q \in at : q < p}) = k - 1
    IN  [k \in 1..Cardinality(at) |-> text[Nth(k)]]

\* The object the JVM holds in the static field `constant` of that class: the enum
\* constant of that name, whose ordinal is its position in the declaration.
JvmStaticField(text, cls, constant) ==
    LET constants == JvmEnumConstants(text)
        at == CHOOSE k \in DOMAIN constants :
                  constants[k] = constant /\ \A j \in 1..(k - 1) : constants[j] # constant
    IN  JEnumObj(cls, at - 1)

\* The derived payload-less enum as a type of the jmodule.
DerivedEnumT == EnumT("geo", derived.name, derived.decl.variants)

\* <Compass as JavaType>::into_jni(v, env) for one variant v, against the class
\* compiled from the text write_class_file writes for declaration().
EnumEncode ==
    /\ derived.step = "derived"
    /\ derived.decl.kind = "Enum"
    /\ \E i \in DOMAIN derived.variants :
         LET v == NVariant(derived.name, derived.variants[i].name, <<>>)
             r == EnumIntoJni(DerivedEnumT, v, NewCtx(NoFail))
             text == write_class_file(derived.decl)
         IN  derived' = [step |-> "encoded", name |-> derived.name,
                         variants |-> derived.variants, decl |-> derived.decl,
                         into |-> derived.into, from |-> derived.from,
                         v |-> v, text |-> text, read |-> r.c.calls,
                         obj |-> JvmStaticField(text, r.r.val.class, r.r.val.constant)]

\* <Compass as JavaType>::from_jni(obj, env) of the object obtained
EnumDecode ==
    /\ derived.step = "encoded"
    /\ LET r == EnumFromJni(DerivedEnumT, derived.obj, NewCtx(NoFail))
       IN  derived' = [step |-> "decoded", name |-> derived.name,
                       variants |-> derived.variants, decl |-> derived.decl,
                       into |-> derived.into, from |-> derived.from,
                       v |-> derived.v, text |-> derived.text, read |-> derived.read,
                       obj |-> derived.obj, back |-> r.r]

NextDerive ==
    \/ DeriveEnum /\ UNCHANGED <<cacheVars, callVars, trip, asked, export, emit,
                                 given, once, checked>>
    \/ EnumEncode /\ UNCHANGED <<cacheVars, callVars, trip, asked, export, emit,
                                 given, once, checked>>
    \/ EnumDecode /\ UNCHANGED <<cacheVars, callVars, trip, asked, export, emit,
                                 given, once, checked>>

SpecDerive == InitDerive /\ [][NextDerive]_vars

(***************************************************************************)
(* C26, as stated: the derived type is a Java enum exactly when no variant *)
(* carries a field (zero variants included), a sealed hierarchy with one   *)
(* nested class per variant as soon as one variant carries a field, and    *)
(* into_jni and from_jni follow the declaration.                           *)
(* Violated: a variant written with an empty field list (`East()`,         *)
(* `East {}`) carries no field, and the derive makes the type a sealed     *)
(* hierarchy because of it.                                                *)
(***************************************************************************)
C26_PathsFollow(d) ==
    /\ Len(d.into) = Len(d.variants) /\ Len(d.from) = Len(d.variants)
    /\ Len(d.decl.variants) = Len(d.variants)
    /\ \A i \in DOMAIN d.variants :
          IF d.decl.kind = "Enum"
          THEN /\ d.decl.variants[i] = d.variants[i].name
               /\ d.into[i].op = "get_static_field"
               /\ d.from[i].op = "ordinal"
          ELSE /\ d.decl.variants[i].name = d.variants[i].name
               /\ Len(d.decl.variants[i].fields) = Len(d.variants[i].fields)
               /\ d.into[i].op = "new_object"
               /\ d.from[i].op = "is_instance_of"
               /\ d.into[i].on = "geo/" \o d.name \o "$" \o d.variants[i].name
               /\ d.from[i].on = d.into[i].on

C27_Order(m) == IF m.receiver # <<>> THEN <<m.receiver[1]>> \o m.inputs ELSE m.inputs
C27_Converted(k) == from_jni(C27_Order(method)[k], jargs[k], NewCtx(NoFail)).r.val
C27_Failed == pc \in {"match", "returned", "panicked"} /\ idx < Len(C27_Order(method))
C27_InOrder ==
    /\ Len(natives) = idx /\ idx <= Len(C27_Order(method))
    /\ \A k \in 1..idx : natives[k] = C27_Converted(k)
    /\ (pc \in {"body", "ret"} \/ out # [n |-> "none"]) => idx = Len(C27_Order(method))
    /\ C27_Failed =>
          /\ res.tag = "Err"
          /\ out = [n |-> "none"]
          /\ bulk = <<>>
          /\ \A i \in DOMAIN throws :
                res.exc.some /\ throws[i].class = res.exc.class /\ throws[i].msg = res.exc.msg
          /\ pc = "returned" => ret = EXCEPTION_NULL(method.output)
C27_Step ==
    /\ idx' # idx => idx' = idx + 1 /\ natives' = Append(natives, C27_Converted(idx + 1))
    /\ (pc = "args" /\ pc' = "match") =>
          /\ res'.tag = "Err" /\ idx' = idx /\ natives' = natives
          /\ \E fail \in Oracles :
                res' = from_jni(C27_Order(method)[idx + 1], jargs[idx + 1], NewCtx(fail)).r
    /\ C27_Failed =>
          /\ UNCHANGED <<idx, natives, res, out, calls, bulk, envErr>>
          /\ pc' \in {pc, "returned", "panicked"}
C27_FirstFailureEndsCall == []C27_InOrder /\ [][C27_Step]_vars

C27_Witness ==
    /\ pc = "returned" /\ method.name = "greet"
    /\ idx = 1 /\ Len(natives) = 1
    /\ res.tag = "Err" /\ out = [n |-> "none"]
    /\ ret = EXCEPTION_NULL(method.output)
    /\ Len(throws) = 1

(***************************************************************************)
(* C28: for a payload-less enum (its variant names pairwise distinct)      *)
(* from_jni(into_jni(v)) = v for every variant v: into_jni reads the       *)
(* static field of the enum class that is named exactly after v, the       *)
(* emitted class declares the constants in the order the ordinal table of  *)
(* from_jni has them, and so the object obtained for the i-th variant      *)
(* (counted from 0) has ordinal i.                                         *)
(***************************************************************************)
C28_Names(d) == [i \in DOMAIN d.variants |-> d.variants[i].name]
C28_IndexOf(d, n) == CHOOSE i \in DOMAIN d.variants : d.variants[i].name = n
C28_RoundTrip ==
    derived.step \in {"encoded", "decoded"} =>
        LET d == derived
            i == C28_IndexOf(d, d.v.variant)
        IN  /\ Len(d.read) = 1
            /\ d.read[1].op = "get_static_field"
            /\ d.read[1].on.class = "geo/" \o d.name
            /\ d.read[1].arg = d.v.variant
            /\ d.read[1].sig = "Lgeo/" \o d.name \o ";"
            /\ JvmEnumConstants(d.text) = C28_Names(d)
            /\ \A k \in DOMAIN d.variants :
                  /\ d.from[k] = [variant |-> d.variants[k].name, op |-> "ordinal", on |-> k - 1]
                  /\ MatchOrdinal(DerivedEnumT, k - 1) = Ok(NVariant(d.name, d.variants[k].name, <<>>))
            /\ d.obj.ordinal = i - 1
            /\ d.step = "decoded" => d.back = Ok(d.v)

C28_Witness ==
    /\ derived.step = "decoded"
    /\ Len(derived.variants) = 3
    /\ derived.v.variant = "East"
    /\ derived.obj.ordinal = 1
    /\ derived.read[1].arg = "East"
    /\ derived.back = Ok(derived.v)

(***************************************************************************)
(* C29: in the text written for any JClassDecl every declaration starts on *)
(* a line of its own: the header of the class is followed by a line break  *)
(* before any member, and every field, enum constant, constructor, nested  *)
(* variant class header and method stub is preceded by a line break, also  *)
(* for a Class with no fields and no methods and for a variant with no     *)
(* fields.                                                                 *)
(* Violated: the line break after a header is written only when there are  *)
(* fields or methods (for a variant: fields), and the constructor that     *)
(* always follows is then written on the line of the header.               *)
(***************************************************************************)
\* The pieces a declaration begins with: the indentation of a field line or an enum
\* constant, and the heads of constructors, nested classes and method stubs.
C29_Starts ==
    {"\t", "\t\t", "\tprivate ", "\t\tpublic ", "\tpublic static final class ",
     "\tpublic native ", "\tpublic static native "}
C29_OwnLine(text) ==
    \A p \in 2..Len(text) : text[p] \in C29_Starts => text[p - 1] = "\n"
C29_DeclarationsOnOwnLines ==
    emit.step = "written" => C29_OwnLine(emit.text)

(***************************************************************************)
(* The checks of the front end on the names that go into the descriptors:  *)
(* verify_java_identifier, verify_type_identifier and                      *)
(* verify_package_identifier (instant-coffee-proc-macro/src/lib.rs).       *)
(* A name is the sequence of its characters.                               *)
(***************************************************************************)
MaxNameLen == 2      \* the names made of every combination of NameChars

\* 'A'..='Z', 'a'..='z', '0'..='9'
UpperCase ==
    {"A", "B", "C", "D", "E", "F", "G", "H", "I", "J", "K", "L", "M"} \cup
    {"N", "O", "P", "Q", "R", "S", "T", "U", "V", "W", "X", "Y", "Z"}
LowerCase ==
    {"a", "b", "c", "d", "e", "f", "g", "h", "i", "j", "k", "l", "m"} \cup
    {"n", "o", "p", "q", "r", "s", "t", "u", "v", "w", "x", "y", "z"}
Digits == {"0", "1", "2", "3", "4", "5", "6", "7", "8", "9"}

\* The result of a check: Ok(()) or Err(message); the messages are written here
\* without their backquotes.
Accepted == [ok |-> TRUE]
Rejected(msg) == [ok |-> FALSE, err |-> msg]

\* verify_java_identifier: `let name_is_keyword = match identifier { .. }`
name_is_keyword(identifier) ==
    Join(identifier) \in
        {"abstract", "assert", "boolean", "break", "byte", "case", "catch", "char",
         "class", "const", "continue", "default", "do", "double", "else", "enum",
         "extends", "final", "finally", "float", "for", "if", "goto", "implements",
         "import", "instanceof", "int", "interface", "long", "native", "new", "package",
         "private", "protected", "public", "return", "short", "static", "strictfp",
         "super", "switch", "synchronized", "this", "throw", "throws", "transient", "try",
         "void", "volatile", "while", "_", "true", "false", "null"}

\* The same check without the test of the first character.
verify_java_identifier_any_first(identifier) ==
    IF Len(identifier) = 0
    THEN Rejected("Java identifiers must be at least 1 character long")
    ELSE IF ~(\A i \in DOMAIN identifier :
                 identifier[i] \in UpperCase \cup LowerCase \cup Digits \cup {"_", "$"})
    THEN Rejected("Java identifiers may only contain A-Z, a-z, 0-9, _ or $")
    ELSE IF name_is_keyword(identifier)
    THEN Rejected("Java identifiers may not be keyword " \o Join(identifier))
    ELSE Accepted

\* verify_java_identifier
verify_java_identifier(identifier) ==
    IF Len(identifier) = 0
    THEN Rejected("Java identifiers must be at least 1 character long")
    ELSE IF ~(identifier[1] \in UpperCase \cup LowerCase \cup {"_", "$"})
    THEN Rejected("Java identifiers may only start with A-Z, a-z, _ or $")
    ELSE IF ~(\A i \in DOMAIN identifier :
                 identifier[i] \in UpperCase \cup LowerCase \cup Digits \cup {"_", "$"})
    THEN Rejected("Java identifiers may only contain A-Z, a-z, 0-9, _ or $")
    ELSE IF name_is_keyword(identifier)
    THEN Rejected("Java identifiers may not be keyword " \o Join(identifier))
    ELSE Accepted

\* verify_type_identifier
verify_type_identifier(identifier) ==
    LET checked_identifier == verify_java_identifier(identifier)
        is_reserved == Join(identifier) \in {"permits", "record", "sealed", "var", "yield"}
    IN  IF ~checked_identifier.ok THEN checked_identifier
        ELSE IF is_reserved
        THEN Rejected("Java identifiers may not be keyword " \o Join(identifier))
        ELSE Accepted

\* str::split(sep): the pieces between the separators, empty pieces included
RECURSIVE Split(_, _)
Split(cs, sep) ==
    IF \A i \in DOMAIN cs : cs[i] # sep THEN <<cs>>
    ELSE LET p == CHOOSE i \in DOMAIN cs : cs[i] = sep /\ \A j \in 1..(i - 1) : cs[j] # sep
         IN  <<SubSeq(cs, 1, p - 1)>> \o Split(SubSeq(cs, p + 1, Len(cs)), sep)

\* verify_package_identifier: `for name in decl.split('.') { verify_java_identifier(name)?; }`
verify_package_identifier(decl) ==
    LET names == Split(decl, ".")
        bad == {i \in DOMAIN names : ~verify_java_identifier(names[i]).ok}
    IN  IF bad = {} THEN Accepted
        ELSE verify_java_identifier(names[CHOOSE i \in bad : \A j \in bad : i <= j])

\* The places where a name enters a descriptor, and the check made there:
\* quote_fields (field), quote_method_decls and jmodule (method), jmodule (parameter),
\* impl_struct_gen and impl_enum_gen (class), impl_enum_gen (variant),
\* read_jmodule_info and jmodule (package).
NameSites == {"field", "method", "parameter", "class", "variant", "package"}
VerifyAt(site, n) ==
    CASE site \in {"field", "method", "parameter"} -> verify_java_identifier(n)
      [] site \in {"class", "variant"} -> verify_type_identifier(n)
      [] site = "package" -> verify_package_identifier(n)

\* The names put to the checks.
NameChars == {"a", "Z", "_", "$", "7", ".", "-"}
NameWords ==
    {<<"a", "b", "s", "t", "r", "a", "c", "t">>, <<"a", "s", "s", "e", "r", "t">>,
     <<"b", "o", "o", "l", "e", "a", "n">>, <<"b", "r", "e", "a", "k">>,
     <<"b", "y", "t", "e">>, <<"c", "a", "s", "e">>, <<"c", "a", "t", "c", "h">>,
     <<"c", "h", "a", "r">>, <<"c", "l", "a", "s", "s">>, <<"c", "o", "n", "s", "t">>,
     <<"c", "o", "n", "t", "i", "n", "u", "e">>, <<"d", "e", "f", "a", "u", "l", "t">>,
     <<"d", "o">>, <<"d", "o", "u", "b", "l", "e">>, <<"e", "l", "s", "e">>,
     <<"e", "n", "u", "m">>, <<"e", "x", "t", "e", "n", "d", "s">>,
     <<"f", "i", "n", "a", "l">>, <<"f", "i", "n", "a", "l", "l", "y">>,
     <<"f", "l", "o", "a", "t">>, <<"f", "o", "r">>, <<"i", "f">>, <<"g", "o", "t", "o">>,
     <<"i", "m", "p", "l", "e", "m", "e", "n", "t", "s">>,
     <<"i", "m", "p", "o", "r", "t">>,
     <<"i", "n", "s", "t", "a", "n", "c", "e", "o", "f">>, <<"i", "n", "t">>,
     <<"i", "n", "t", "e", "r", "f", "a", "c", "e">>, <<"l", "o", "n", "g">>,
     <<"n", "a", "t", "i", "v", "e">>, <<"n", "e", "w">>,
     <<"p", "a", "c", "k", "a", "g", "e">>, <<"p", "r", "i", "v", "a", "t", "e">>,
     <<"p", "r", "o", "t", "e", "c", "t", "e", "d">>, <<"p", "u", "b", "l", "i", "c">>,
     <<"r", "e", "t", "u", "r", "n">>, <<"s", "h", "o", "r", "t">>,
     <<"s", "t", "a", "t", "i", "c">>, <<"s", "t", "r", "i", "c", "t", "f", "p">>,
     <<"s", "u", "p", "e", "r">>, <<"s", "w", "i", "t", "c", "h">>,
     <<"s", "y", "n", "c", "h", "r", "o", "n", "i", "z", "e", "d">>,
     <<"t", "h", "i", "s">>, <<"t", "h", "r", "o", "w">>, <<"t", "h", "r", "o", "w", "s">>,
     <<"t", "r", "a", "n", "s", "i", "e", "n", "t">>, <<"t", "r", "y">>,
     <<"v", "o", "i", "d">>, <<"v", "o", "l", "a", "t", "i", "l", "e">>,
     <<"w", "h", "i", "l", "e">>, <<"_">>, <<"t", "r", "u", "e">>,
     <<"f", "a", "l", "s", "e">>, <<"n", "u", "l", "l">>,
     <<"p", "e", "r", "m", "i", "t", "s">>, <<"r", "e", "c", "o", "r", "d">>,
     <<"s", "e", "a", "l", "e", "d">>, <<"v", "a", "r">>, <<"y", "i", "e", "l", "d">>,
     <<"P", "o", "i", "n", "t">>, <<"g", "e", "t", "_", "x">>, <<"x", "1">>, <<"1", "x">>,
     <<"$", "t", "m", "p">>, <<"B", "i", "g", "_", "I", "n", "t">>,
     <<"c", "o", "m", ".", "a", "p", "p">>,
     <<"m", "y", "_", "p", "k", "g", ".", "i", "o">>, <<"a", ".", ".", "b">>, <<".", "a">>,
     <<"a", ".">>, <<"i", "n", "t", ".", "x">>, <<"x", ".", "n", "u", "l", "l">>,
     <<"v", "a", "r", ".", "x">>, <<"m", "y", "-", "p", "k", "g">>, <<"a", " ", "b">>,
     <<"S", "h", "a", "p", "e", "2">>, <<"i", "f", "f">>, <<"n", "u", "l">>,
     <<"I", "n", "t">>, <<"c", "l", "a", "s", "s", "e", "s">>}
NamePool == SeqsUpTo(NameChars, MaxNameLen) \cup NameWords

InitVerify ==
    /\ NAME = Unset
    /\ SIGNATURE = Unset
    /\ queries = <<>>
    /\ IdleCall
    /\ trip = [step |-> "idle"]
    /\ asked = [step |-> "idle"]
    /\ export = [step |-> "idle"]
    /\ emit = [step |-> "idle"]
    /\ given = [step |-> "idle"]
    /\ once = [step |-> "idle"]
    /\ derived = [step |-> "idle"]
    /\ \E site \in NameSites, n \in NamePool :
          checked = [step |-> "name", site |-> site, n |-> n]

\* The macro checks the name; map_err(..)? ends the expansion on Err, and only an
\* accepted name goes on into the JField, JMethod, JUnionVariant or JClassDecl.
VerifyName ==
    /\ checked.step = "name"
    /\ LET verdict == VerifyAt(checked.site, checked.n)
       IN  checked' = [step |-> "verified", site |-> checked.site, n |-> checked.n,
                       verdict |-> verdict,
                       descriptor |-> IF verdict.ok THEN <<checked.n>> ELSE <<>>]

NextVerify ==
    \/ VerifyName /\ UNCHANGED <<cacheVars, callVars, trip, asked, export, emit,
                                 given, once, derived>>

SpecVerify == InitVerify /\ [][NextVerify]_vars

(***************************************************************************)
(* C30: an identifier is accepted iff it is not empty, its first character *)
(* is in [A-Za-z_$], all its characters are in [A-Za-z0-9_$] and it is not *)
(* a Java keyword or literal (abstract .. while, `_`, true, false, null);  *)
(* a type identifier (class, enum or variant name) is accepted iff it is   *)
(* an accepted identifier and none of permits, record, sealed, var, yield; *)
(* a package path is accepted iff every segment between its dots is an     *)
(* accepted identifier (an empty segment is rejected); and a field,        *)
(* method, parameter, class, variant or package name is in a descriptor    *)
(* only if it has passed its check.                                        *)
(***************************************************************************)
C30_Keywords ==
    {"_", "abstract", "assert", "boolean", "break", "byte", "case", "catch", "char",
     "class", "const", "continue", "default", "do", "double", "else", "enum", "extends",
     "false", "final", "finally", "float", "for", "goto", "if", "implements", "import",
     "instanceof", "int", "interface", "long", "native", "new", "null", "package",
     "private", "protected", "public", "return", "short", "static", "strictfp", "super",
     "switch", "synchronized", "this", "throw", "throws", "transient", "true", "try",
     "void", "volatile", "while"}
C30_Identifier(n) ==
    /\ n # <<>>
    /\ n[1] \in UpperCase \cup LowerCase \cup {"_", "$"}
    /\ \A i \in DOMAIN n : n[i] \in UpperCase \cup LowerCase \cup Digits \cup {"_", "$"}
    /\ Join(n) \notin C30_Keywords
C30_TypeIdentifier(n) ==
    C30_Identifier(n) /\ Join(n) \notin {"permits", "record", "sealed", "var", "yield"}
\* the segments of a path: the runs between two neighbouring dots (or ends)
C30_Segments(n) ==
    LET ends == {0, Len(n) + 1} \cup {i \in DOMAIN n : n[i] = "."}
    IN  {SubSeq(n, a + 1, b - 1) :
            <<a, b>> \in {ab \in ends \X ends :
                             ab[1] < ab[2] /\ \A e \in ends : ~(ab[1] < e /\ e < ab[2])}}
C30_Package(n) == \A segment \in C30_Segments(n) : C30_Identifier(segment)
C30_Passes(site, n) ==
    CASE site \in {"field", "method", "parameter"} -> C30_Identifier(n)
      [] site \in {"class", "variant"} -> C30_TypeIdentifier(n)
      [] site = "package" -> C30_Package(n)
C30_NameValidation ==
    checked.step = "verified" =>
        /\ checked.verdict.ok <=> C30_Passes(checked.site, checked.n)
        /\ \A i \in DOMAIN checked.descriptor :
              C30_Passes(checked.site, checked.descriptor[i])
        /\ C30_Passes(checked.site, checked.n) => checked.descriptor = <<checked.n>>

C30_Witness ==
    /\ checked.step = "verified"
    /\ checked.site = "package"
    /\ checked.n = <<"a", ".", ".", "b">>
    /\ ~checked.verdict.ok
    /\ checked.descriptor = <<>>

====
